---------------------------- MODULE Spec2Model ----------------------------
(***************************************************************************)
(* A model of the combat core of Death Circuit (wave_game): weapons,       *)
(* projectiles, damage and the per-frame collision pass.                   *)
(*                                                                         *)
(* Units.  Lengths are pixels.  Time is counted in units of                 *)
(* 1/UnitsPerSecond s; UnitsPerSecond is a multiple of 13 so that          *)
(* 1 / fire_rate and its division by BOSS_FIRE_RATE_MULTIPLIER (1.3) are   *)
(* whole numbers, and of 100 so that a frame of k/100 s moves every        *)
(* projectile by a whole number of pixels.  Health is counted in units of  *)
(* 1/HP of a health point so that regeneration per frame is whole, and     *)
(* fire rates in units of 1/RateDen shots per second (the Rifle's is 1.5).  *)
(***************************************************************************)
EXTENDS Integers, Sequences, FiniteSets, TLC

VARIABLES
    weapon,         \* the Weapon object driven by the weapon specification
    shots,          \* the list handed to Weapon.fire as its `bullets` argument
    op,             \* the last call made on `weapon` and what it returned
    dt_since_fire,  \* history: dt handed to update() since the last shot
    reload_elapsed  \* history: dt handed to update() since the reload began

VARIABLES
    player,         \* the Player object
    enemies,        \* EnemySpawner.enemies, the active set, in list order
    spawner,        \* EnemySpawner: spawn_queue, spawn_timer
    manager,        \* BulletManager: bullets, bullet_count
    game,           \* Game: game_state, wave_number, wave_break_timer, ...
    pc,             \* where Game.run stands: the frame's dt and next phase
    kills,          \* the Game.on_enemy_killed calls made so far, in order
    hits            \* history: the take_damage calls the bullet loop made

VARIABLES
    flight,         \* history: per bullet taken by add_bullet, the dt its
                    \* update() calls were handed and whether a collision
                    \* pass marked it as hit
    scene,          \* the objects and arguments a CollisionManager or an
                    \* AI behaviour is called with
    spatial_grid,   \* CollisionManager.spatial_grid
    result          \* the last call made on `scene` and what it returned

weaponVars == <<weapon, shots, op, dt_since_fire, reload_elapsed>>
gameVars == <<player, enemies, spawner, manager, game, pc, kills, hits>>
auxVars == <<flight, scene, spatial_grid, result>>
vars == <<weapon, shots, op, dt_since_fire, reload_elapsed,
          player, enemies, spawner, manager, game, pc, kills, hits,
          flight, scene, spatial_grid, result>>

---------------------------------------------------------------------------
(* Bounds of the model *)

MaxMagazine == 2    \* magazine_size ranges over 1..MaxMagazine
MaxFireRate == 2    \* fire_rate ranges over 1..MaxFireRate shots per second
MaxReload   == 3    \* reload_time ranges over DtUnit * (2..MaxReload)
MaxDt       == 2    \* update(dt) is called with dt in DtUnit * (1..MaxDt)
DtUnit      == 250  \* the granularity of dt
MaxShots    == 3    \* successful fire() calls per behaviour
MaxFrames   == 2    \* frames of Game.run per behaviour
MaxBullets  == 2    \* BulletManager.add_bullet calls per behaviour

(* Program constants *)

PISTOL_DAMAGE  == 20
SMG_DAMAGE     == 10
SHOTGUN_DAMAGE == 8
RIFLE_DAMAGE   == 35
SHOTGUN_PELLETS == 8
PISTOL_BULLET_SPEED  == 500
SMG_BULLET_SPEED     == 600
SHOTGUN_BULLET_SPEED == 400
RIFLE_BULLET_SPEED   == 800
BULLET_LIFETIME == 3
BOSS_FIRE_RATE_MULTIPLIER_NUM == 13   \* 1.3 = 13 / 10
BOSS_FIRE_RATE_MULTIPLIER_DEN == 10
BOSS_DAMAGE_MULTIPLIER_NUM == 3       \* 1.5 = 3 / 2
BOSS_DAMAGE_MULTIPLIER_DEN == 2
BOSS_HEALTH_MULTIPLIER == 3
BOSS_SIZE_MULTIPLIER_NUM == 3         \* 1.5 = 3 / 2
BOSS_SIZE_MULTIPLIER_DEN == 2
BOSS_WAVE_INTERVAL == 5

UnitsPerSecond == 100 * 13
Tick == UnitsPerSecond \div 100     \* 0.01 s
RateDen == 2

PISTOL_FIRE_RATE  == 3 * RateDen
SMG_FIRE_RATE     == 10 * RateDen
SHOTGUN_FIRE_RATE == 1 * RateDen
RIFLE_FIRE_RATE   == 3                  \* 1.5 shots per second
PISTOL_MAGAZINE_SIZE  == 12
SMG_MAGAZINE_SIZE     == 30
SHOTGUN_MAGAZINE_SIZE == 6
RIFLE_MAGAZINE_SIZE   == 10
PISTOL_RELOAD_TIME  == (3 * UnitsPerSecond) \div 2
SMG_RELOAD_TIME     == 2 * UnitsPerSecond
SHOTGUN_RELOAD_TIME == (5 * UnitsPerSecond) \div 2
RIFLE_RELOAD_TIME   == 2 * UnitsPerSecond

SCREEN_WIDTH  == 1280
SCREEN_HEIGHT == 720
PLAYER_SIZE == 24
PLAYER_MAX_HEALTH == 100
PLAYER_REGEN_RATE == 10                 \* health points per second
PLAYER_INVINCIBILITY_DURATION == UnitsPerSecond \div 10
ENEMY_BASE_HEALTH == 40
ENEMY_SPAWN_INVINCIBILITY == 1 * UnitsPerSecond
ENEMY_CONTACT_DAMAGE == 5
ENEMY_CONTACT_COOLDOWN == UnitsPerSecond \div 2
BULLET_SIZE == 4
WAVE_BREAK_TIME == 5 * UnitsPerSecond
WAVE_BASE_ENEMIES == 3
WAVE_ENEMY_INCREMENT == 2
MAX_FRAME_DT == UnitsPerSecond \div 30  \* dt = min(dt, 1/30) in Game.run

HP == 100 \div PLAYER_REGEN_RATE        \* health units per health point

Min(a, b) == IF a < b THEN a ELSE b
Max(a, b) == IF a > b THEN a ELSE b

---------------------------------------------------------------------------
(* utils.py: vectors, angles and the line of sight.  A unit vector is held *)
(* in 1/DirUnit; an angle is held as the shortest whole vector pointing    *)
(* along it, so that two angles are equal exactly when they are the same   *)
(* direction; the angle 0.0 is << 1, 0 >>.                                  *)

DirUnit == 10 * 100

Abs(x) == IF x < 0 THEN -x ELSE x

RECURSIVE Gcd(_, _)
Gcd(a, b) == IF b = 0 THEN a ELSE Gcd(b, a % b)

\* math.sqrt, rounded down, by bisection between lo and hi.
RECURSIVE SqrtBetween(_, _, _)
SqrtBetween(n, lo, hi) ==
    IF lo >= hi THEN lo
    ELSE LET mid == (lo + hi + 1) \div 2
         IN  IF mid * mid <= n THEN SqrtBetween(n, mid, hi)
                               ELSE SqrtBetween(n, lo, mid - 1)

Sqrt(n) == SqrtBetween(n, 0, Min(n, 46340))

\* utils.normalize_vector
normalize_vector(vec) ==
    LET length == Sqrt(vec[1] * vec[1] + vec[2] * vec[2])
    IN  IF length = 0
        THEN << 0, 0 >>
        ELSE << (vec[1] * DirUnit) \div length, (vec[2] * DirUnit) \div length >>

\* math.atan2(y, x); atan2(0, 0) is 0.0.
atan2(y, x) ==
    IF x = 0 /\ y = 0
    THEN << 1, 0 >>
    ELSE LET g == Gcd(Abs(x), Abs(y)) IN << x \div g, y \div g >>

\* pygame.Rect.collidepoint: the right and the bottom edge are outside.
collidepoint(rect, x, y) ==
    /\ rect.left <= x /\ x < rect.right
    /\ rect.top <= y /\ y < rect.bottom

\* 0 <= num / det <= 1, for det # 0.
InUnitInterval(num, det) ==
    IF det > 0 THEN 0 <= num /\ num <= det
               ELSE det <= num /\ num <= 0

\* utils.line_intersects_line: parallel segments never intersect.
line_intersects_line(p1, p2, p3, p4) ==
    LET det == (p2[1] - p1[1]) * (p4[2] - p3[2]) - (p2[2] - p1[2]) * (p4[1] - p3[1])
        t   == (p3[1] - p1[1]) * (p4[2] - p3[2]) - (p3[2] - p1[2]) * (p4[1] - p3[1])
        u   == (p3[1] - p1[1]) * (p2[2] - p1[2]) - (p3[2] - p1[2]) * (p2[1] - p1[1])
    IN  /\ det # 0
        /\ InUnitInterval(t, det)
        /\ InUnitInterval(u, det)

\* utils.line_intersects_rect
line_intersects_rect(line_start, line_end, rect) ==
    \/ collidepoint(rect, line_start[1], line_start[2])
    \/ collidepoint(rect, line_end[1], line_end[2])
    \/ line_intersects_line(line_start, line_end,
                            << rect.left, rect.top >>, << rect.right, rect.top >>)
    \/ line_intersects_line(line_start, line_end,
                            << rect.right, rect.top >>, << rect.right, rect.bottom >>)
    \/ line_intersects_line(line_start, line_end,
                            << rect.right, rect.bottom >>, << rect.left, rect.bottom >>)
    \/ line_intersects_line(line_start, line_end,
                            << rect.left, rect.bottom >>, << rect.left, rect.top >>)

\* utils.line_of_sight
line_of_sight(start, end, walls) ==
    \A i \in 1..Len(walls) : ~line_intersects_rect(start, end, walls[i])

---------------------------------------------------------------------------
(* weapon.py *)

WeaponKinds == {"Pistol", "SMG", "Shotgun", "Rifle"}

KindDamage(kind) ==
    CASE kind = "Pistol"  -> PISTOL_DAMAGE
      [] kind = "SMG"     -> SMG_DAMAGE
      [] kind = "Shotgun" -> SHOTGUN_DAMAGE
      [] kind = "Rifle"   -> RIFLE_DAMAGE

KindBulletSpeed(kind) ==
    CASE kind = "Pistol"  -> PISTOL_BULLET_SPEED
      [] kind = "SMG"     -> SMG_BULLET_SPEED
      [] kind = "Shotgun" -> SHOTGUN_BULLET_SPEED
      [] kind = "Rifle"   -> RIFLE_BULLET_SPEED

\* Weapon.__init__: a loaded, ready weapon.  fire_cooldown = 1.0 / fire_rate.
NewWeapon(kind, fire_rate, magazine_size, reload_time) ==
    [ name              |-> kind,
      damage            |-> KindDamage(kind),
      fire_rate         |-> fire_rate,
      bullet_speed      |-> KindBulletSpeed(kind),
      magazine_size     |-> magazine_size,
      reload_time       |-> reload_time,
      ammo              |-> magazine_size,
      is_reloading      |-> FALSE,
      reload_timer      |-> 0,
      fire_timer        |-> 0,
      fire_cooldown     |-> (UnitsPerSecond * RateDen) \div fire_rate,
      shots_fired       |-> 0,
      total_shots_fired |-> 0 ]

\* Enemy.make_boss, the part that boosts the weapon.
make_boss_weapon(w) ==
    [w EXCEPT !.fire_cooldown = (w.fire_cooldown * BOSS_FIRE_RATE_MULTIPLIER_DEN)
                                    \div BOSS_FIRE_RATE_MULTIPLIER_NUM,
              !.damage = (w.damage * BOSS_DAMAGE_MULTIPLIER_NUM)
                                    \div BOSS_DAMAGE_MULTIPLIER_DEN]

\* Faulty variants of the weapon methods.  Each drops one guard or step of the
\* method it is named after; the properties below tell them from the code.
can_fire_without_ammo_test(w) == ~w.is_reloading /\ w.fire_timer <= 0

start_reload_of_full_magazine(w) ==
    IF ~w.is_reloading
    THEN [w EXCEPT !.is_reloading = TRUE, !.reload_timer = w.reload_time]
    ELSE w

start_reload_restarting(w) ==
    IF w.ammo < w.magazine_size
    THEN [w EXCEPT !.is_reloading = TRUE, !.reload_timer = w.reload_time]
    ELSE w

Weapon_update_double_tick(w, dt) ==
    LET w1 == IF w.fire_timer > 0
              THEN [w EXCEPT !.fire_timer = w.fire_timer - 2 * dt] ELSE w
    IN  IF w1.is_reloading
        THEN LET w2 == [w1 EXCEPT !.reload_timer = w1.reload_timer - dt]
             IN  IF w2.reload_timer <= 0
                 THEN [w2 EXCEPT !.ammo = w2.magazine_size, !.is_reloading = FALSE,
                                 !.reload_timer = 0]
                 ELSE w2
        ELSE w1

Pellets_single(w) == 1

can_fire(w) == ~w.is_reloading /\ w.ammo > 0 /\ w.fire_timer <= 0

start_reload(w) ==
    IF ~w.is_reloading /\ w.ammo < w.magazine_size
    THEN [w EXCEPT !.is_reloading = TRUE, !.reload_timer = w.reload_time]
    ELSE w

finish_reload(w) ==
    [w EXCEPT !.ammo = w.magazine_size, !.is_reloading = FALSE, !.reload_timer = 0]

Weapon_update(w, dt) ==
    LET w1 == IF w.fire_timer > 0 THEN [w EXCEPT !.fire_timer = w.fire_timer - dt] ELSE w
    IN  IF w1.is_reloading
        THEN LET w2 == [w1 EXCEPT !.reload_timer = w1.reload_timer - dt]
             IN  IF w2.reload_timer <= 0 THEN finish_reload(w2) ELSE w2
        ELSE w1

\* Bullet.__init__
NewBullet(pos, velocity, damage, owner_id) ==
    [ pos      |-> pos,
      velocity |-> velocity,
      damage   |-> damage,
      owner_id |-> owner_id,
      lifetime |-> BULLET_LIFETIME * UnitsPerSecond,
      alive    |-> TRUE ]

\* utils.vector_from_angle: exact along the four axes (cos, sin in {-1,0,1}),
\* rounded down to whole units elsewhere.
vector_from_angle(dir, length) ==
    IF dir[1] = 0 \/ dir[2] = 0
    THEN <<dir[1] * length, dir[2] * length>>
    ELSE LET along == normalize_vector(dir)
         IN  <<(along[1] * length) \div DirUnit, (along[2] * length) \div DirUnit>>

\* The `bullets` argument of fire(): a Python list, which has append, or the
\* BulletManager object, which has add_bullet but no append.
ListArg(items)   == [type |-> "list", items |-> items]
ManagerArg(items) == [type |-> "BulletManager", items |-> items]
HasAppend(bullets) == bullets.type = "list"

Pellets(w) == IF w.name = "Shotgun" THEN SHOTGUN_PELLETS ELSE 1

\* The projectiles one shot creates.  The random jitter of the spread
\* (weapon.py:89, 178) is below the resolution of the axis directions: every
\* pellet leaves along `direction`.
ShotBullets(w, pos, direction, owner_id) ==
    [i \in 1..Pellets(w) |->
        NewBullet(pos, vector_from_angle(direction, w.bullet_speed), w.damage, owner_id)]

\* Weapon.fire and Shotgun.fire: refused when can_fire() is false; bullets.append
\* raises AttributeError, before any field is written, when `bullets` has no
\* append; otherwise the pellets are appended and ammo and timers updated.
Weapon_fire(w, pos, direction, owner_id, bullets) ==
    IF ~can_fire(w)
    THEN [weapon |-> w, bullets |-> bullets, ret |-> FALSE, raised |-> FALSE]
    ELSE IF ~HasAppend(bullets)
    THEN [weapon |-> w, bullets |-> bullets, ret |-> FALSE, raised |-> TRUE]
    ELSE [weapon |-> [w EXCEPT !.ammo = w.ammo - 1,
                               !.fire_timer = w.fire_cooldown,
                               !.shots_fired = w.shots_fired + 1,
                               !.total_shots_fired = w.total_shots_fired + 1],
          bullets |-> [bullets EXCEPT !.items =
                          bullets.items \o ShotBullets(w, pos, direction, owner_id)],
          ret |-> TRUE, raised |-> FALSE]

\* The four weapon classes with the parameters config.py gives them.
Pistol  == NewWeapon("Pistol", PISTOL_FIRE_RATE, PISTOL_MAGAZINE_SIZE, PISTOL_RELOAD_TIME)
SMG     == NewWeapon("SMG", SMG_FIRE_RATE, SMG_MAGAZINE_SIZE, SMG_RELOAD_TIME)
Shotgun == NewWeapon("Shotgun", SHOTGUN_FIRE_RATE, SHOTGUN_MAGAZINE_SIZE, SHOTGUN_RELOAD_TIME)
Rifle   == NewWeapon("Rifle", RIFLE_FIRE_RATE, RIFLE_MAGAZINE_SIZE, RIFLE_RELOAD_TIME)

---------------------------------------------------------------------------
(* utils.py, collision.py: geometry on whole pixels.  distance(a, b) < r is *)
(* decided on the squares.                                                 *)

DistSq(p, q) == (q[1] - p[1]) * (q[1] - p[1]) + (q[2] - p[2]) * (q[2] - p[2])

clamp(value, min_val, max_val) == Max(min_val, Min(value, max_val))

\* utils.circle_rect_collision: the closest point of the rectangle is within
\* the radius (<=).
circle_rect_collision(circle_pos, circle_radius, rect) ==
    LET closest == <<clamp(circle_pos[1], rect.left, rect.right),
                     clamp(circle_pos[2], rect.top, rect.bottom)>>
    IN  DistSq(circle_pos, closest) <= circle_radius * circle_radius

\* A wall test that looks at the bullet's centre only.
check_bullet_wall_collision_of_centre(walls, bullet_pos, bullet_radius) ==
    \E i \in 1..Len(walls) : circle_rect_collision(bullet_pos, 0, walls[i])

\* CollisionManager.check_bullet_wall_collision
check_bullet_wall_collision(walls, bullet_pos, bullet_radius) ==
    \E i \in 1..Len(walls) : circle_rect_collision(bullet_pos, bullet_radius, walls[i])

\* CollisionManager.check_entity_entity_collision (strict <)
check_entity_entity_collision(pos1, radius1, pos2, radius2) ==
    DistSq(pos1, pos2) < (radius1 + radius2) * (radius1 + radius2)

\* CollisionManager._get_grid_cells_for_circle with grid_size = 64
GRID_SIZE == 64
get_grid_cells_for_circle(pos, radius) ==
    { <<x, y>> : x \in ((pos[1] - radius) \div GRID_SIZE)..((pos[1] + radius) \div GRID_SIZE),
                 y \in ((pos[2] - radius) \div GRID_SIZE)..((pos[2] + radius) \div GRID_SIZE) }

---------------------------------------------------------------------------
(* player.py, enemy.py: the combatants.  A combatant is referred to by     *)
(* PlayerRef or by the slot of an enemy; the slot stands for the identity  *)
(* of the Enemy object, which its id string need not be.                   *)

PlayerRef == 0

\* Player.__init__, the fields the combat step reads or writes.
NewPlayer(pos) ==
    [ id                       |-> "player",
      pos                      |-> pos,
      radius                   |-> PLAYER_SIZE \div 2,
      max_health               |-> PLAYER_MAX_HEALTH * HP,
      health                   |-> PLAYER_MAX_HEALTH * HP,
      invincible               |-> FALSE,
      invincibility_timer      |-> 0,
      last_damage_time         |-> 0,
      last_contact_damage_time |-> 0,
      weapon                   |-> Pistol,
      mouse_pressed            |-> FALSE,
      kills                    |-> 0,
      damage_dealt             |-> 0,
      damage_taken             |-> 0 ]

\* Player.take_damage: ignored while invincible; otherwise the amount is
\* subtracted from health as it is and the invincibility window opens.
Player_take_damage(p, amount, current_time) ==
    IF p.invincible
    THEN p
    ELSE [p EXCEPT !.health = p.health - amount * HP,
                   !.damage_taken = p.damage_taken + amount,
                   !.last_damage_time = current_time,
                   !.invincible = TRUE,
                   !.invincibility_timer = PLAYER_INVINCIBILITY_DURATION]

\* Player.heal; `amount` is in health units.
Player_heal(p, amount) ==
    [p EXCEPT !.health = Min(p.max_health, p.health + amount)]

Player_is_dead(p) == p.health <= 0

EnemyTypes == {"rusher", "sniper", "dodger", "flanker"}

EnemyTypeHealth(enemy_type) ==
    CASE enemy_type = "rusher"  -> ENEMY_BASE_HEALTH
      [] enemy_type = "sniper"  -> ENEMY_BASE_HEALTH + 10
      [] enemy_type = "dodger"  -> ENEMY_BASE_HEALTH + 20
      [] enemy_type = "flanker" -> ENEMY_BASE_HEALTH + 15

EnemyTypeWeapon(enemy_type) ==
    CASE enemy_type = "rusher"  -> SMG
      [] enemy_type = "sniper"  -> Rifle
      [] enemy_type = "dodger"  -> Shotgun
      [] enemy_type = "flanker" -> Rifle

\* Enemy.__init__ followed by the subclass constructor (Rusher, Sniper,
\* Dodger, Flanker): full health, alive, inside the spawn invincibility.
NewEnemy(enemy_type, pos, id, slot) ==
    [ slot                |-> slot,
      id                  |-> id,
      enemy_type          |-> enemy_type,
      pos                 |-> pos,
      radius              |-> PLAYER_SIZE \div 2,
      max_health          |-> EnemyTypeHealth(enemy_type) * HP,
      health              |-> EnemyTypeHealth(enemy_type) * HP,
      alive               |-> TRUE,
      invincible          |-> TRUE,
      invincibility_timer |-> ENEMY_SPAWN_INVINCIBILITY,
      weapon              |-> EnemyTypeWeapon(enemy_type) ]

\* A faulty Enemy.die that leaves the alive flag set.
Enemy_die_leaving_alive(e, killer_id) ==
    [enemy |-> e, killed |-> << [enemy |-> e.slot, killer_id |-> killer_id] >>]

\* Enemy.die: the alive flag is cleared and the game is notified; `killed`
\* holds the Game.on_enemy_killed call made, with its arguments.
Enemy_die(e, killer_id) ==
    [enemy |-> [e EXCEPT !.alive = FALSE],
     killed |-> << [enemy |-> e.slot, killer_id |-> killer_id] >>]

\* An Enemy.take_damage that does not look at the invincibility.
Enemy_take_damage_through_shield(e, amount, attacker_id) ==
    IF ~e.alive
    THEN [enemy |-> e, killed |-> << >>]
    ELSE LET e1 == [e EXCEPT !.health = e.health - amount * HP]
         IN  IF e1.health <= 0
             THEN Enemy_die(e1, attacker_id)
             ELSE [enemy |-> e1, killed |-> << >>]

\* Enemy.take_damage: ignored when dead or invincible; otherwise the amount
\* is subtracted from health as it is, and die(attacker_id) runs when
\* health <= 0.
Enemy_take_damage(e, amount, attacker_id) ==
    IF ~e.alive \/ e.invincible
    THEN [enemy |-> e, killed |-> << >>]
    ELSE LET e1 == [e EXCEPT !.health = e.health - amount * HP]
         IN  IF e1.health <= 0
             THEN Enemy_die(e1, attacker_id)
             ELSE [enemy |-> e1, killed |-> << >>]

\* Enemy.update up to the AI step: nothing for a dead enemy, else the spawn
\* invincibility runs down.
Enemy_update_invincibility(e, dt) ==
    IF e.alive /\ e.invincible
    THEN LET t == e.invincibility_timer - dt
         IN  [e EXCEPT !.invincibility_timer = t, !.invincible = (t > 0)]
    ELSE e

\* Enemy.update after the AI step: the weapon's timers.  The enemy holds its
\* position: its move_direction stays (0, 0).
\* An Enemy.update whose weapon step reloads an empty magazine.
Enemy_update_weapon_reloading(e, dt) ==
    IF e.alive
    THEN [e EXCEPT !.weapon = Weapon_update(IF e.weapon.ammo <= 0 /\ ~e.weapon.is_reloading
                                            THEN start_reload(e.weapon)
                                            ELSE e.weapon, dt)]
    ELSE e

Enemy_update_weapon(e, dt) ==
    IF e.alive THEN [e EXCEPT !.weapon = Weapon_update(e.weapon, dt)] ELSE e

---------------------------------------------------------------------------
(* bullet.py *)

\* A Bullet object held by the BulletManager; uid is the value of
\* bullet_count when add_bullet took it and stands for the object's identity.
ManagedBullet(b, uid) ==
    [ uid |-> uid, pos |-> b.pos, velocity |-> b.velocity, damage |-> b.damage,
      owner_id |-> b.owner_id, lifetime |-> b.lifetime, alive |-> b.alive ]

\* Bullet.update with the age test made strict.
Bullet_update_outliving(b, dt) ==
    IF ~b.alive
    THEN b
    ELSE LET pos == << b.pos[1] + (b.velocity[1] * dt) \div UnitsPerSecond,
                       b.pos[2] + (b.velocity[2] * dt) \div UnitsPerSecond >>
             lifetime == b.lifetime - dt
             out == \/ pos[1] < -BULLET_SIZE \/ pos[1] > SCREEN_WIDTH + BULLET_SIZE
                    \/ pos[2] < -BULLET_SIZE \/ pos[2] > SCREEN_HEIGHT + BULLET_SIZE
         IN  [b EXCEPT !.pos = pos, !.lifetime = lifetime,
                       !.alive = ~(lifetime < 0 \/ out)]

\* Bullet.update: nothing for a dead bullet; else it moves, ages, and dies of
\* age or outside the screen (by more than its radius).
Bullet_update(b, dt) ==
    IF ~b.alive
    THEN b
    ELSE LET pos == << b.pos[1] + (b.velocity[1] * dt) \div UnitsPerSecond,
                       b.pos[2] + (b.velocity[2] * dt) \div UnitsPerSecond >>
             lifetime == b.lifetime - dt
             out == \/ pos[1] < -BULLET_SIZE \/ pos[1] > SCREEN_WIDTH + BULLET_SIZE
                    \/ pos[2] < -BULLET_SIZE \/ pos[2] > SCREEN_HEIGHT + BULLET_SIZE
         IN  [b EXCEPT !.pos = pos, !.lifetime = lifetime,
                       !.alive = ~(lifetime <= 0 \/ out)]

\* BulletManager.update without the removal of the dead.
BulletManager_update_keeping_dead(bullets, dt) ==
    [i \in 1..Len(bullets) |-> Bullet_update(bullets[i], dt)]

\* BulletManager.update: every bullet is updated, the dead ones are removed.
BulletManager_update(bullets, dt) ==
    LET updated == [i \in 1..Len(bullets) |-> Bullet_update(bullets[i], dt)]
    IN  SelectSeq(updated, LAMBDA b : b.alive)

---------------------------------------------------------------------------
(* main.py: Game._update_collision_detection, the bullet loop *)

\* The combatant a reference stands for, among the player and `es`.
EnemyAt(es, ref) == CHOOSE i \in 1..Len(es) : es[i].slot = ref
Combatant(p, es, ref) ==
    IF ref = PlayerRef THEN p ELSE es[EnemyAt(es, ref)]
ActiveRefs(es) == {PlayerRef} \cup {es[i].slot : i \in 1..Len(es)}

\* CollisionManager.check_bullet_entity_collision on the grid that
\* _update_collision_detection has just rebuilt from the player and the
\* active enemies: the combatants sharing a grid cell with the bullet whose
\* centre is closer than the sum of the radii.
check_bullet_entity_collision(p, es, bullet_pos, bullet_radius) ==
    { ref \in ActiveRefs(es) :
        LET c == Combatant(p, es, ref)
        IN  /\ get_grid_cells_for_circle(c.pos, c.radius)
                   \cap get_grid_cells_for_circle(bullet_pos, bullet_radius) # {}
            /\ DistSq(bullet_pos, c.pos)
                   < (bullet_radius + c.radius) * (bullet_radius + c.radius) }

\* main.py:318, entity_alive.
entity_alive(p, es, ref) ==
    IF ref = PlayerRef THEN ~Player_is_dead(p)
                       ELSE es[EnemyAt(es, ref)].alive

\* A faulty hit test that lets a bullet hit a combatant carrying its owner id.
CanHit_without_owner_test(b, p, es, ref) == entity_alive(p, es, ref)

\* main.py:319, the test a hit entity must pass to be damaged by the bullet.
CanHit(b, p, es, ref) ==
    /\ entity_alive(p, es, ref)
    /\ b.owner_id # Combatant(p, es, ref).id

\* The orders in which `for entity in hit_entities` can visit the entities:
\* the list is filled by iterating a set of objects.
Orders(S) ==
    { f \in [1..Cardinality(S) -> S] : \A i, j \in 1..Cardinality(S) : f[i] = f[j] => i = j }

\* A faulty entity loop without the break: every entity passing the test is hit.
HitTargets_without_break(b, p, es, order) ==
    SelectSeq(order, LAMBDA ref : CanHit(b, p, es, ref))

\* The entity loop of main.py:316-337: the first entity in `order` passing the
\* test is hit and the loop breaks; none if no entity passes.
HitTargets(b, p, es, order) ==
    LET passing == SelectSeq(order, LAMBDA ref : CanHit(b, p, es, ref))
    IN  IF passing = << >> THEN << >> ELSE << Head(passing) >>

\* What a hit works on: the combatants, the kill statistics and the logs.
World(p, es, total_kills, ks, hs) ==
    [player |-> p, enemies |-> es, total_kills |-> total_kills, kills |-> ks, hits |-> hs]

\* Game.on_enemy_killed(enemy, killer_id); `call` holds the arguments.
on_enemy_killed(w, call) ==
    LET enemy == w.enemies[EnemyAt(w.enemies, call.enemy)]
        p == IF call.killer_id = "player"
             THEN [w.player EXCEPT !.kills = w.player.kills + 1,
                                   !.damage_dealt = w.player.damage_dealt
                                                       + enemy.max_health \div HP]
             ELSE w.player
    IN  [w EXCEPT !.total_kills = w.total_kills + 1,
                  !.kills = Append(w.kills, call),
                  !.player = p]

\* main.py:320-325: take_damage on the entity hit by bullet b, with the
\* signature of its class.  The player's damage_taken is raised a second
\* time by the loop itself (main.py:323), ignored hit or not.
ApplyHit(w, b, ref, current_time) ==
    LET target == Combatant(w.player, w.enemies, ref)
        record == [bullet |-> b.uid, owner_id |-> b.owner_id, damage |-> b.damage,
                   target |-> ref, target_id |-> target.id,
                   health_before |-> target.health, invincible |-> target.invincible]
    IN  IF ref = PlayerRef
        THEN LET p == Player_take_damage(w.player, b.damage, current_time)
             IN  [w EXCEPT !.player = [p EXCEPT !.damage_taken = p.damage_taken + b.damage],
                           !.hits = Append(w.hits, record)]
        ELSE LET i == EnemyAt(w.enemies, ref)
                 r == Enemy_take_damage(w.enemies[i], b.damage, b.owner_id)
                 w1 == [w EXCEPT !.enemies[i] = r.enemy,
                                 !.hits = Append(w.hits, record)]
             IN  IF r.killed = << >> THEN w1 ELSE on_enemy_killed(w1, r.killed[1])

\* The take_damage calls of one bullet, in the order of `targets`.
RECURSIVE ApplyHits(_, _, _, _)
ApplyHits(w, b, targets, current_time) ==
    IF targets = << >>
    THEN w
    ELSE ApplyHits(ApplyHit(w, b, Head(targets), current_time), b, Tail(targets), current_time)

---------------------------------------------------------------------------
(* main.py: Game.run.  pc.at names the next phase of the frame:            *)
(*   "events"    _handle_events, then player.update of _update_game        *)
(*   "wave"      _update_wave_system                                       *)
(*   "spawner"   enemy_spawner.update                                      *)
(*   "bullets"   bullet_manager.update                                     *)
(*   "collide"   _update_collision_detection, bullet pc.bullet of the loop *)
(*   "fault"     an exception left Game.run; main() prints it and exits    *)
(*   "over"      game_over() was called                                    *)
(*   "idle"      no game is running                                        *)

Phase(at, dt, bullet, frames) == [at |-> at, dt |-> dt, bullet |-> bullet, frames |-> frames]

\* EnemySpawner.spawn_queue.  start_wave shuffles the enemy types before it
\* queues them and update pops the queue from the front, so the type of the
\* next enemy is any type still queued: the queue is held as the number of
\* entries of each type.  An entry's position and spawn delay are random
\* draws independent of everything else and are drawn when it is popped.
EmptyQueue == [t \in EnemyTypes |-> 0]
QueueLen(q) == q["rusher"] + q["sniper"] + q["dodger"] + q["flanker"]

\* The game variables of a behaviour that runs no game.
GameIdle ==
    /\ player = NewPlayer(<<SCREEN_WIDTH \div 2, SCREEN_HEIGHT \div 2>>)
    /\ enemies = << >>
    /\ spawner = [spawn_queue |-> EmptyQueue, boss_pending |-> FALSE,
                  spawn_timer |-> 0, spawned |-> 0]
    /\ manager = [bullets |-> << >>, bullet_count |-> 0]
    /\ game = [wave_number |-> 1, wave_break_timer |-> 0, current_time |-> 0,
               total_kills |-> 0, walls |-> << >>]
    /\ pc = Phase("idle", 0, 0, 0)
    /\ kills = << >>
    /\ hits = << >>

\* The variables only the bullet and the collision specifications use.
NoCall == [name |-> "none"]
AuxIdle ==
    /\ flight = << >>
    /\ scene = << >>
    /\ spatial_grid = {}
    /\ result = NoCall

---------------------------------------------------------------------------
(* player.py, enemy.py: the per-frame updates *)

NoFire(w, bullets) == [weapon |-> w, bullets |-> bullets, ret |-> FALSE, raised |-> FALSE]

\* Player.update with no key held: the weapon's timers, the invincibility
\* window, then _handle_shooting, which fires the current weapon into
\* self.bullet_manager while the mouse button is down.
Player_update(p, dt, bullets) ==
    LET p1 == [p EXCEPT !.weapon = Weapon_update(p.weapon, dt)]
        t  == p1.invincibility_timer - dt
        p2 == IF p1.invincible
              THEN [p1 EXCEPT !.invincibility_timer = t, !.invincible = (t > 0)]
              ELSE p1
        r  == IF p2.mouse_pressed
              THEN Weapon_fire(p2.weapon, <<p2.pos[1] + 30, p2.pos[2]>>, <<1, 0>>,
                               "player", bullets)
              ELSE NoFire(p2.weapon, bullets)
    IN  [player |-> [p2 EXCEPT !.weapon = r.weapon], bullets |-> r.bullets,
         raised |-> r.raised]

\* Enemy.make_boss: a new id and the multipliers of config.py.
make_boss(e, boss_id) ==
    [e EXCEPT !.id = boss_id,
              !.max_health = e.max_health * BOSS_HEALTH_MULTIPLIER,
              !.health = e.max_health * BOSS_HEALTH_MULTIPLIER,
              !.radius = (e.radius * BOSS_SIZE_MULTIPLIER_NUM) \div BOSS_SIZE_MULTIPLIER_DEN,
              !.weapon = make_boss_weapon(e.weapon)]

\* Enemy.fire_weapon: self.weapon and self.bullets are both set (and truthy),
\* so the weapon is fired into self.bullets.
\* Enemy.fire_weapon: nothing happens `if not self.bullets`, which is so for
\* an empty list; a BulletManager is always true.
Enemy_fire_weapon(e, bullets) ==
    IF HasAppend(bullets) /\ bullets.items = << >>
    THEN NoFire(e.weapon, bullets)
    ELSE Weapon_fire(e.weapon, <<e.pos[1] + 30, e.pos[2]>>, <<1, 0>>, e.id, bullets)

\* Enemy.update.  `fires` tells whether the AI step of this call decides to
\* shoot (decision.should_fire with the player in sight), which depends on
\* distances and timers the model leaves open.  An exception raised by the
\* shot leaves update before the weapon's timers are touched.
Enemy_update(e, dt, fires, bullets) ==
    IF ~e.alive
    THEN [enemy |-> e, bullets |-> bullets, raised |-> FALSE]
    ELSE LET e1 == Enemy_update_invincibility(e, dt)
             r  == IF fires THEN Enemy_fire_weapon(e1, bullets)
                            ELSE NoFire(e1.weapon, bullets)
         IN  IF r.raised
             THEN [enemy |-> e1, bullets |-> bullets, raised |-> TRUE]
             ELSE [enemy |-> Enemy_update_weapon([e1 EXCEPT !.weapon = r.weapon], dt),
                   bullets |-> r.bullets, raised |-> FALSE]

\* The loop `for enemy in self.enemies[:]` of EnemySpawner.update from index
\* i on: each enemy is updated and a dead one removed; acc holds the list as
\* it stands.  An exception leaves the rest of the list as it was.
RECURSIVE UpdateEnemies(_, _, _, _, _)
UpdateEnemies(es, i, dt, fires, acc) ==
    IF i > Len(es)
    THEN acc
    ELSE LET r == Enemy_update(es[i], dt, fires[i], acc.bullets)
         IN  IF r.raised
             THEN [enemies |-> acc.enemies \o <<r.enemy>> \o SubSeq(es, i + 1, Len(es)),
                   bullets |-> r.bullets, raised |-> TRUE]
             ELSE UpdateEnemies(es, i + 1, dt, fires,
                      [enemies |-> IF r.enemy.alive THEN Append(acc.enemies, r.enemy)
                                                    ELSE acc.enemies,
                       bullets |-> r.bullets, raised |-> FALSE])

\* An EnemySpawner.update that spawns while the spawn timer still runs.
SpawnNext_while_timer_runs(sp, es, dt, enemy_type, pos, id, boss_id, delay) ==
    IF QueueLen(sp.spawn_queue) > 0
    THEN LET slot  == sp.spawned + 1
             fresh == NewEnemy(enemy_type, pos, id, slot)
             enemy == IF sp.boss_pending THEN make_boss(fresh, boss_id) ELSE fresh
             queue == [sp.spawn_queue EXCEPT ![enemy_type] = @ - 1]
         IN  [spawner |-> [sp EXCEPT !.spawn_queue = queue,
                                     !.boss_pending = FALSE,
                                     !.spawned = slot,
                                     !.spawn_timer = IF QueueLen(queue) > 0
                                                     THEN delay ELSE sp.spawn_timer],
              enemies |-> Append(es, enemy)]
    ELSE [spawner |-> [sp EXCEPT !.spawn_timer = sp.spawn_timer - dt], enemies |-> es]

\* EnemySpawner.update, the spawning part: the timer runs down; once it is
\* out the head of the queue is popped, created (made a boss if flagged),
\* appended, and the timer set to the next entry's delay if there is one.
SpawnNext(sp, es, dt, enemy_type, pos, id, boss_id, delay) ==
    IF sp.spawn_timer > 0
    THEN [spawner |-> [sp EXCEPT !.spawn_timer = sp.spawn_timer - dt], enemies |-> es]
    ELSE IF QueueLen(sp.spawn_queue) > 0
    THEN LET slot  == sp.spawned + 1
             fresh == NewEnemy(enemy_type, pos, id, slot)
             enemy == IF sp.boss_pending THEN make_boss(fresh, boss_id) ELSE fresh
             queue == [sp.spawn_queue EXCEPT ![enemy_type] = @ - 1]
         IN  [spawner |-> [sp EXCEPT !.spawn_queue = queue,
                                     !.boss_pending = FALSE,
                                     !.spawned = slot,
                                     !.spawn_timer = IF QueueLen(queue) > 0
                                                     THEN delay ELSE sp.spawn_timer],
              enemies |-> Append(es, enemy)]
    ELSE [spawner |-> sp, enemies |-> es]

---------------------------------------------------------------------------
(* enemy.py: EnemySpawner.start_wave; main.py: Game._update_wave_system *)

is_boss_wave(wave_number) == wave_number % BOSS_WAVE_INTERVAL = 0

\* enemy_count of start_wave
EnemyCount(wave_number) ==
    IF is_boss_wave(wave_number)
    THEN Max(3, WAVE_BASE_ENEMIES + (wave_number - 1) \div 2)
    ELSE WAVE_BASE_ENEMIES + (wave_number - 1) * WAVE_ENEMY_INCREMENT

Queue(rushers, snipers, dodgers, flankers) ==
    [t \in EnemyTypes |-> CASE t = "rusher"  -> rushers
                            [] t = "sniper"  -> snipers
                            [] t = "dodger"  -> dodgers
                            [] t = "flanker" -> flankers]

\* EnemySpawner._get_enemy_mix_for_wave: the mixes it can return; from wave 4
\* on every type is drawn at random for every enemy.
get_enemy_mix_for_wave(wave_number, enemy_count) ==
    CASE wave_number = 1 -> { Queue(enemy_count, 0, 0, 0) }
      [] wave_number = 2 -> { Queue(enemy_count \div 2, enemy_count - enemy_count \div 2, 0, 0) }
      [] wave_number = 3 ->
            LET rushers == Max(1, enemy_count \div 3)
                snipers == Max(1, enemy_count \div 3)
            IN  { Queue(rushers, snipers, Max(1, enemy_count - rushers - snipers), 0) }
      [] OTHER -> { q \in [EnemyTypes -> 0..enemy_count] : QueueLen(q) = enemy_count }

\* EnemySpawner.start_wave: both lists are cleared, the wave is queued (the
\* first entry flagged as the boss on a boss wave) and the timer set.
start_wave(sp, wave_number, queue) ==
    [sp EXCEPT !.spawn_queue = queue,
               !.boss_pending = is_boss_wave(wave_number),
               !.spawn_timer = WAVE_BREAK_TIME]

\* EnemySpawner.is_wave_complete
is_wave_complete(sp, es) == QueueLen(sp.spawn_queue) = 0 /\ Len(es) = 0

\* Game._update_wave_system; `queue` and `walls` are the random draws of
\* start_wave and generate_arena, used when the next wave starts.
update_wave_system(g, p, sp, es, dt, queue, walls) ==
    IF is_wave_complete(sp, es) /\ g.wave_break_timer <= 0
    THEN [game    |-> [g EXCEPT !.wave_number = g.wave_number + 1,
                                !.walls = walls,
                                !.wave_break_timer = WAVE_BREAK_TIME],
          player  |-> p,
          spawner |-> start_wave(sp, g.wave_number + 1, queue),
          enemies |-> << >>]
    ELSE IF g.wave_break_timer > 0
    THEN LET t == g.wave_break_timer - dt
         IN  [game    |-> [g EXCEPT !.wave_break_timer = t],
              player  |-> IF t > 0
                          THEN Player_heal(p, (PLAYER_REGEN_RATE * HP * dt) \div UnitsPerSecond)
                          ELSE p,
              spawner |-> sp,
              enemies |-> es]
    ELSE [game |-> g, player |-> p, spawner |-> sp, enemies |-> es]

---------------------------------------------------------------------------
(* main.py: Game._update_collision_detection, the entity loops *)

isqrt(n) == CHOOSE r \in 0..n : r * r <= n /\ n < (r + 1) * (r + 1)

\* A resolve_entity_entity_collision that pushes each circle by the whole
\* overlap.
resolve_entity_entity_collision_by_whole_overlap(pos1, radius1, pos2, radius2) ==
    LET d2       == DistSq(pos1, pos2)
        dist     == isqrt(d2)
        min_dist == radius1 + radius2
        dx       == pos1[1] - pos2[1]
        dy       == pos1[2] - pos2[2]
        overlap  == min_dist - dist
    IN  IF d2 < min_dist * min_dist /\ d2 > 0
        THEN << << pos1[1] + (dx * overlap) \div dist,
                   pos1[2] + (dy * overlap) \div dist >>,
                << pos2[1] - (dx * overlap) \div dist,
                   pos2[2] - (dy * overlap) \div dist >> >>
        ELSE << pos1, pos2 >>

\* CollisionManager.resolve_entity_entity_collision: two overlapping circles
\* with distinct centres are pushed apart by half the overlap each, along the
\* line of the centres; on whole pixels.
resolve_entity_entity_collision(pos1, radius1, pos2, radius2) ==
    LET d2       == DistSq(pos1, pos2)
        dist     == isqrt(d2)
        min_dist == radius1 + radius2
        dx       == pos1[1] - pos2[1]
        dy       == pos1[2] - pos2[2]
        overlap  == min_dist - dist
    IN  IF d2 < min_dist * min_dist /\ d2 > 0
        THEN << << pos1[1] + (dx * overlap) \div (2 * dist),
                   pos1[2] + (dy * overlap) \div (2 * dist) >>,
                << pos2[1] - (dx * overlap) \div (2 * dist),
                   pos2[2] - (dy * overlap) \div (2 * dist) >> >>
        ELSE << pos1, pos2 >>

\* main.py:339-350: every pair of enemies that overlap is pushed apart, in
\* list order, from the pair (i, j) on.
RECURSIVE ResolveEnemyPairs(_, _, _)
ResolveEnemyPairs(es, i, j) ==
    IF i > Len(es) THEN es
    ELSE IF j > Len(es) THEN ResolveEnemyPairs(es, i + 1, i + 2)
    ELSE LET r == resolve_entity_entity_collision(es[i].pos, es[i].radius,
                                                  es[j].pos, es[j].radius)
             es1 == IF check_entity_entity_collision(es[i].pos, es[i].radius,
                                                     es[j].pos, es[j].radius)
                    THEN [es EXCEPT ![i].pos = r[1], ![j].pos = r[2]]
                    ELSE es
         IN  ResolveEnemyPairs(es1, i, j + 1)

\* A contact damage loop without the cooldown test.
RECURSIVE ContactDamage_without_cooldown(_, _, _, _)
ContactDamage_without_cooldown(p, es, i, current_time) ==
    IF i > Len(es) THEN [player |-> p, enemies |-> es]
    ELSE IF ~es[i].alive
            \/ ~check_entity_entity_collision(p.pos, p.radius, es[i].pos, es[i].radius)
    THEN ContactDamage_without_cooldown(p, es, i + 1, current_time)
    ELSE LET p1 == IF ~p.invincible /\ ~es[i].invincible
                   THEN [Player_take_damage(p, ENEMY_CONTACT_DAMAGE, current_time)
                            EXCEPT !.last_contact_damage_time = current_time]
                   ELSE p
             r  == resolve_entity_entity_collision(p1.pos, p1.radius,
                                                   es[i].pos, es[i].radius)
         IN  ContactDamage_without_cooldown([p1 EXCEPT !.pos = r[1]],
                                            [es EXCEPT ![i].pos = r[2]],
                                            i + 1, current_time)

\* main.py:352-373: contact damage from every living enemy that overlaps the
\* player, subject to both invincibilities and the contact cooldown, and the
\* push apart; from enemy i on.
RECURSIVE ContactDamage(_, _, _, _)
ContactDamage(p, es, i, current_time) ==
    IF i > Len(es) THEN [player |-> p, enemies |-> es]
    ELSE IF ~es[i].alive
            \/ ~check_entity_entity_collision(p.pos, p.radius, es[i].pos, es[i].radius)
    THEN ContactDamage(p, es, i + 1, current_time)
    ELSE LET p1 == IF /\ ~p.invincible /\ ~es[i].invincible
                      /\ current_time - p.last_contact_damage_time >= ENEMY_CONTACT_COOLDOWN
                   THEN [Player_take_damage(p, ENEMY_CONTACT_DAMAGE, current_time)
                            EXCEPT !.last_contact_damage_time = current_time]
                   ELSE p
             r  == resolve_entity_entity_collision(p1.pos, p1.radius,
                                                   es[i].pos, es[i].radius)
         IN  ContactDamage([p1 EXCEPT !.pos = r[1]], [es EXCEPT ![i].pos = r[2]],
                           i + 1, current_time)

\* A WeaponManager.update that runs the timers of every weapon it holds.
WeaponManager_update_all_weapons(wm, dt) ==
    [wm EXCEPT !.weapons = [i \in DOMAIN wm.weapons |-> Weapon_update(wm.weapons[i], dt)],
               !.switch_timer = IF @ > 0 THEN @ - dt ELSE @]

WEAPON_SWITCH_TIME == 0

\* WeaponManager.__init__: the four weapons under the indices 0..3, the
\* pistol current.  current_weapon is weapons[current_weapon_index], the
\* same object: the record holds the index only.
NewWeaponManager ==
    [ weapons |-> [i \in 0..3 |-> CASE i = 0 -> Pistol
                                    [] i = 1 -> SMG
                                    [] i = 2 -> Shotgun
                                    [] OTHER -> Rifle],
      current_weapon_index |-> 0,
      switch_timer |-> 0 ]

\* WeaponManager.switch_weapon(index)
WeaponManager_switch_weapon(wm, index) ==
    IF index \notin DOMAIN wm.weapons \/ index = wm.current_weapon_index
    THEN [wm |-> wm, ret |-> FALSE]
    ELSE IF wm.switch_timer <= 0
    THEN [wm |-> [wm EXCEPT !.current_weapon_index = index,
                            !.switch_timer = WEAPON_SWITCH_TIME],
          ret |-> TRUE]
    ELSE [wm |-> wm, ret |-> FALSE]

\* WeaponManager.update(dt)
WeaponManager_update(wm, dt) ==
    [wm EXCEPT !.weapons[wm.current_weapon_index] = Weapon_update(@, dt),
               !.switch_timer = IF @ > 0 THEN @ - dt ELSE @]

\* WeaponManager.fire(pos, direction, owner_id, bullets)
WeaponManager_fire(wm, pos, direction, owner_id, bullets) ==
    LET r == Weapon_fire(wm.weapons[wm.current_weapon_index], pos, direction,
                         owner_id, bullets)
    IN  [wm |-> [wm EXCEPT !.weapons[wm.current_weapon_index] = r.weapon],
         bullets |-> r.bullets, ret |-> r.ret, raised |-> r.raised]

\* WeaponManager.start_reload()
WeaponManager_start_reload(wm) ==
    [wm EXCEPT !.weapons[wm.current_weapon_index] = start_reload(@)]

---------------------------------------------------------------------------
(* The weapon specification: one Weapon driven through its public methods, *)
(* its fire() handed a list as the signature declares.                     *)

Owners == {"player", "enemy_1000", "BOSS_1000"}
FireDirs == {<<1, 0>>}
FirePos == <<640, 360>>
DtSet == {DtUnit * d : d \in 1..MaxDt}
ReloadTimes == {DtUnit * r : r \in 2..MaxReload}
FireRates == {RateDen * r : r \in 1..MaxFireRate}
GapCap == UnitsPerSecond

\* Weapons as the program builds them: the player's four, and the enemies'
\* SMG, Rifle and Shotgun, boosted by make_boss for a boss.
InitWeapon ==
    /\ \E kind \in WeaponKinds, boss \in BOOLEAN, rate \in FireRates,
          mag \in 1..MaxMagazine, rt \in ReloadTimes, owner \in Owners :
          /\ boss => kind # "Pistol"
          /\ boss <=> owner = "BOSS_1000"
          /\ weapon = IF boss THEN make_boss_weapon(NewWeapon(kind, rate, mag, rt))
                              ELSE NewWeapon(kind, rate, mag, rt)
          /\ op = [name |-> "init", ret |-> FALSE, owner |-> owner, dt |-> 0]
    /\ shots = << >>
    /\ dt_since_fire = 0
    /\ reload_elapsed = 0
    /\ GameIdle
    /\ AuxIdle

Fire ==
    \E dir \in FireDirs :
        LET r == Weapon_fire(weapon, FirePos, dir, op.owner, ListArg(shots))
        IN  /\ can_fire(weapon) => weapon.total_shots_fired < MaxShots
            /\ weapon' = r.weapon
            /\ shots' = r.bullets.items
            /\ op' = [op EXCEPT !.name = "fire", !.ret = r.ret, !.dt = 0]
            /\ dt_since_fire' = IF r.ret THEN 0 ELSE dt_since_fire
            /\ UNCHANGED <<reload_elapsed, gameVars, auxVars>>

StartReload ==
    /\ weapon' = start_reload(weapon)
    /\ op' = [op EXCEPT !.name = "start_reload", !.ret = FALSE, !.dt = 0]
    /\ reload_elapsed' = IF weapon'.is_reloading /\ ~weapon.is_reloading
                          THEN 0 ELSE reload_elapsed
    /\ UNCHANGED <<shots, dt_since_fire, gameVars, auxVars>>

Update ==
    \E dt \in DtSet :
        /\ weapon' = Weapon_update(weapon, dt)
        /\ op' = [op EXCEPT !.name = "update", !.ret = FALSE, !.dt = dt]
        /\ dt_since_fire' = Min(dt_since_fire + dt, GapCap)
        /\ reload_elapsed' = IF weapon.is_reloading
                              THEN reload_elapsed + dt ELSE reload_elapsed
        /\ UNCHANGED <<shots, gameVars, auxVars>>

FinishReload ==
    /\ weapon' = finish_reload(weapon)
    /\ op' = [op EXCEPT !.name = "finish_reload", !.ret = FALSE, !.dt = 0]
    /\ UNCHANGED <<shots, dt_since_fire, reload_elapsed, gameVars, auxVars>>

NextWeapon == Fire \/ StartReload \/ Update \/ FinishReload

SpecWeapon == InitWeapon /\ [][NextWeapon]_vars

---------------------------------------------------------------------------
(* Properties of the weapon specification *)

\* C6: from a state with ammo = 0 a fire() call returns False and adds no
\* projectile, whatever fire_timer is, and ammo leaves 0 only by finish_reload
\* having run (called directly, or by update when the reload timer elapses),
\* which leaves a full magazine and no reload in progress.
C6_EmptyWeaponNeverFires ==
    [][ /\ (weapon.ammo = 0 /\ op'.name = "fire")
              => (~op'.ret /\ shots' = shots /\ weapon' = weapon)
        /\ (weapon.ammo = 0 /\ weapon'.ammo # 0)
              => /\ op'.name \in {"finish_reload", "update"}
                 /\ weapon'.ammo = weapon.magazine_size
                 /\ ~weapon'.is_reloading
                 /\ weapon'.reload_timer = 0 ]_vars

\* A fire() refused for the empty magazine alone: cooled down, not reloading.
C6_Witness ==
    /\ op.name = "fire" /\ ~op.ret
    /\ weapon.ammo = 0 /\ weapon.fire_timer <= 0 /\ ~weapon.is_reloading
    /\ weapon.total_shots_fired >= 1

\* C7: in every state 0 <= ammo <= magazine_size, and is_reloading is never
\* true together with ammo = magazine_size.
C7_AmmoInRange ==
    /\ 0 <= weapon.ammo
    /\ weapon.ammo <= weapon.magazine_size
    /\ ~(weapon.is_reloading /\ weapon.ammo = weapon.magazine_size)

\* A reload begun on a magazine of two that was shot empty.
C7_Witness ==
    /\ op.name = "start_reload"
    /\ weapon.is_reloading /\ weapon.ammo = 0 /\ weapon.magazine_size >= 2

\* C8: fire() is all-or-nothing.  Reloading, empty or cooling down: it returns
\* False and neither the weapon (ammo, timers, reload state, counters) nor the
\* bullet collection changes.  Otherwise it returns True, takes one round,
\* sets fire_timer to fire_cooldown and appends one projectile per pellet
\* (SHOTGUN_PELLETS for the Shotgun, 1 for the others), each with the caller's
\* owner_id and the weapon's damage.
C8_FireAllOrNothing ==
    [][ op'.name = "fire" =>
          IF weapon.is_reloading \/ weapon.ammo <= 0 \/ weapon.fire_timer > 0
          THEN ~op'.ret /\ weapon' = weapon /\ shots' = shots
          ELSE /\ op'.ret
               /\ weapon'.ammo = weapon.ammo - 1
               /\ weapon'.fire_timer = weapon.fire_cooldown
               /\ Len(shots') = Len(shots) +
                     (IF weapon.name = "Shotgun" THEN SHOTGUN_PELLETS ELSE 1)
               /\ SubSeq(shots', 1, Len(shots)) = shots
               /\ \A i \in (Len(shots) + 1)..Len(shots') :
                     /\ shots'[i].owner_id = op.owner
                     /\ shots'[i].damage = weapon.damage
                     /\ shots'[i].alive ]_vars

\* The first shot of a Shotgun: its pellets are the whole collection.
C8_Witness ==
    /\ op.name = "fire" /\ op.ret
    /\ weapon.name = "Shotgun"
    /\ Len(shots) = SHOTGUN_PELLETS

\* C9 as stated: a second successful fire() follows the previous one only
\* after update() calls whose dt add up to at least 1 / fire_rate.
C9_GapAtLeastInverseFireRate ==
    [][ (op'.name = "fire" /\ op'.ret /\ weapon.total_shots_fired >= 1)
            => dt_since_fire >= (UnitsPerSecond * RateDen) \div weapon.fire_rate ]_vars

\* C9, amended: between two successful fire() calls the dt handed to update()
\* adds up to at least the weapon's fire_cooldown, which is 1 / fire_rate for
\* every weapon but a boss's, where make_boss has divided it by
\* BOSS_FIRE_RATE_MULTIPLIER.  A shot sets fire_timer to fire_cooldown, and
\* only update() lowers fire_timer.
C9_GapAtLeastFireCooldown ==
    [][ /\ (op'.name = "fire" /\ op'.ret)
              => /\ weapon'.fire_timer = weapon.fire_cooldown
                 /\ weapon.total_shots_fired >= 1
                       => dt_since_fire >= weapon.fire_cooldown
        /\ weapon'.fire_timer < weapon.fire_timer => op'.name = "update"
        /\ weapon'.fire_cooldown = weapon.fire_cooldown
        /\ weapon.fire_cooldown =
              IF op.owner = "BOSS_1000"
              THEN (((UnitsPerSecond * RateDen) \div weapon.fire_rate)
                       * BOSS_FIRE_RATE_MULTIPLIER_DEN) \div BOSS_FIRE_RATE_MULTIPLIER_NUM
              ELSE (UnitsPerSecond * RateDen) \div weapon.fire_rate ]_vars

\* A boss's weapon after its second shot.
C9_Witness ==
    /\ op.name = "fire" /\ op.ret
    /\ op.owner = "BOSS_1000"
    /\ weapon.total_shots_fired >= 2

\* C10: start_reload() on a weapon that is reloading or full changes nothing,
\* the running reload timer included.  Otherwise it sets is_reloading and
\* reload_timer = reload_time and touches nothing else, and the reload is over,
\* with a full magazine and is_reloading false, by the update() call that
\* brings the dt handed to update() since then to reload_time.
C10_ReloadProtocol ==
    [][ /\ (op'.name = "start_reload"
                /\ (weapon.is_reloading \/ weapon.ammo = weapon.magazine_size))
              => weapon' = weapon
        /\ (op'.name = "start_reload"
                /\ ~(weapon.is_reloading \/ weapon.ammo = weapon.magazine_size))
              => weapon' = [weapon EXCEPT !.is_reloading = TRUE,
                                          !.reload_timer = weapon.reload_time]
        /\ (op'.name = "update" /\ weapon.is_reloading
                /\ reload_elapsed + op'.dt >= weapon.reload_time)
              => /\ weapon'.ammo = weapon.magazine_size
                 /\ ~weapon'.is_reloading
        /\ weapon.is_reloading => reload_elapsed < weapon.reload_time ]_vars

\* A reload of a fired weapon that update() has just completed.
C10_Witness ==
    /\ op.name = "update"
    /\ ~weapon.is_reloading /\ weapon.ammo = weapon.magazine_size
    /\ weapon.total_shots_fired >= 1
    /\ reload_elapsed >= weapon.reload_time
    /\ weapon.reload_timer = 0

---------------------------------------------------------------------------
(* The game specification: frames of Game.run on a running game.  Nobody   *)
(* holds a movement key and the AI steers no enemy, so the combatants keep *)
(* their positions.  Projectiles enter through BulletManager.add_bullet,   *)
(* built as a weapon builds them, called between two frames.               *)

MaxWave == 2        \* the wave system is followed up to this wave

\* pygame.Rect(left, top, width, height)
Rect(left, top, width, height) ==
    [left |-> left, top |-> top, right |-> left + width, bottom |-> top + height]

\* The arena generate_arena draws: one wall on the firing lane.
Arenas == { << Rect(900, 340, 64, 32) >> }

Lane == SCREEN_HEIGHT \div 2
EnemyIds == {"enemy_1000", "enemy_2000"}
BossIds == {"BOSS_1000"}
\* MapGenerator.get_spawn_position: a spawn zone of the top and of the right
\* edge, with offsets (0, 0).
SpawnPositions == { <<426, 50>>, <<SCREEN_WIDTH - 50, 240>> }
\* random.uniform(0.5, 2.0), and (1.5, 3.0) on a boss wave: the end points.
SpawnDelays(wave_number) ==
    IF is_boss_wave(wave_number)
    THEN { (3 * UnitsPerSecond) \div 2, 3 * UnitsPerSecond }
    ELSE { UnitsPerSecond \div 2, 2 * UnitsPerSecond }

\* The shots add_bullet is handed: who fired, with which weapon, and where
\* the projectile is when it is added; all fly along the lane towards +x.
\* The player's Rifle towards the enemies, at the wall, and out of its own
\* muzzle; the SMG of enemy_1000 from among the enemies and behind the player.
ShotsInFlight ==
    { [owner_id |-> "player",     kind |-> "Rifle", x |-> 698],
      [owner_id |-> "player",     kind |-> "Rifle", x |-> 890],
      [owner_id |-> "player",     kind |-> "Rifle", x |-> 620],
      [owner_id |-> "enemy_1000", kind |-> "SMG",   x |-> 702],
      [owner_id |-> "enemy_1000", kind |-> "SMG",   x |-> 620] }

\* The time between two rounds of Game.run: one or two hundredths of a second.
FrameTimes == { Tick, 2 * Tick }

\* An enemy whose spawn invincibility has run out.
Seasoned(e) == [e EXCEPT !.invincible = FALSE, !.invincibility_timer = 0]

CombatTime == 8 * UnitsPerSecond

WeaponIdle ==
    /\ weapon = Pistol
    /\ shots = << >>
    /\ op = [name |-> "init", ret |-> FALSE, owner |-> "player", dt |-> 0]
    /\ dt_since_fire = 0
    /\ reload_elapsed = 0

\* Wave 1 under way: a rusher past its spawn invincibility, unhurt or left
\* with 5 health by a Rifle hit, a second rusher at the end of its spawn
\* invincibility, and the third about to spawn.
InitCombat ==
    /\ \E health \in {ENEMY_BASE_HEALTH, ENEMY_BASE_HEALTH - RIFLE_DAMAGE} :
          enemies = << [Seasoned(NewEnemy("rusher", <<700, Lane>>, "enemy_1000", 1))
                            EXCEPT !.health = health * HP],
                       [NewEnemy("rusher", <<728, Lane>>, "enemy_2000", 2)
                            EXCEPT !.invincibility_timer = 2 * Tick] >>
    /\ spawner = [spawn_queue |-> Queue(1, 0, 0, 0), boss_pending |-> FALSE,
                  spawn_timer |-> Tick, spawned |-> 2]
    /\ game = [wave_number |-> 1, wave_break_timer |-> 0, current_time |-> CombatTime,
               total_kills |-> 0, walls |-> CHOOSE a \in Arenas : TRUE]

\* Wave 1 cleared: the three rushers are dead and removed.
InitCleared ==
    /\ enemies = << >>
    /\ spawner = [spawn_queue |-> EmptyQueue, boss_pending |-> FALSE,
                  spawn_timer |-> 0, spawned |-> 3]
    /\ game = [wave_number |-> 1, wave_break_timer |-> 0, current_time |-> CombatTime,
               total_kills |-> 3, walls |-> CHOOSE a \in Arenas : TRUE]

Init ==
    /\ WeaponIdle
    /\ player = NewPlayer(<<SCREEN_WIDTH \div 2, Lane>>)
    /\ manager = [bullets |-> << >>, bullet_count |-> 0]
    /\ pc = Phase("events", 0, 0, 0)
    /\ kills = << >>
    /\ hits = << >>
    /\ AuxIdle
    /\ (InitCombat \/ InitCleared)

\* Game._handle_mouse_down and _handle_mouse_up for the left button.
MouseDown ==
    /\ pc.at = "events" /\ pc.frames < MaxFrames
    /\ ~player.mouse_pressed
    /\ player' = [player EXCEPT !.mouse_pressed = TRUE]
    /\ UNCHANGED <<weaponVars, auxVars, enemies, spawner, manager, game, pc, kills, hits>>

MouseUp ==
    /\ pc.at = "events" /\ pc.frames < MaxFrames
    /\ player.mouse_pressed
    /\ player' = [player EXCEPT !.mouse_pressed = FALSE]
    /\ UNCHANGED <<weaponVars, auxVars, enemies, spawner, manager, game, pc, kills, hits>>

\* BulletManager.add_bullet
AddBullet ==
    /\ pc.at = "events" /\ pc.frames < MaxFrames
    /\ manager.bullet_count < MaxBullets
    /\ \E shot \in ShotsInFlight :
          LET b == NewBullet(<<shot.x, Lane>>,
                             vector_from_angle(<<1, 0>>, KindBulletSpeed(shot.kind)),
                             KindDamage(shot.kind), shot.owner_id)
          IN  manager' = [bullets |-> Append(manager.bullets,
                                             ManagedBullet(b, manager.bullet_count)),
                          bullet_count |-> manager.bullet_count + 1]
    /\ UNCHANGED <<weaponVars, auxVars, player, enemies, spawner, game, pc, kills, hits>>

\* Game.run up to the player's part of _update_game: the frame's dt is
\* measured and capped, the clock read, the player updated; an exception
\* leaves the loop, a dead player ends the game.
PlayerUpdate ==
    /\ pc.at = "events" /\ pc.frames < MaxFrames
    /\ \E elapsed \in FrameTimes :
          LET dt == Min(elapsed, MAX_FRAME_DT)
              r  == Player_update(player, dt, ManagerArg(manager.bullets))
          IN  /\ player' = r.player
              /\ manager' = [manager EXCEPT !.bullets = r.bullets.items]
              /\ game' = [game EXCEPT !.current_time = game.current_time + elapsed]
              /\ pc' = [pc EXCEPT !.dt = dt,
                                  !.at = IF r.raised THEN "fault"
                                         ELSE IF Player_is_dead(r.player) THEN "over"
                                         ELSE "wave"]
    /\ UNCHANGED <<weaponVars, auxVars, enemies, spawner, kills, hits>>

\* Game._update_wave_system
UpdateWaveSystem ==
    /\ pc.at = "wave"
    /\ (is_wave_complete(spawner, enemies) /\ game.wave_break_timer <= 0)
            => game.wave_number < MaxWave
    /\ \E walls \in Arenas,
          queue \in get_enemy_mix_for_wave(game.wave_number + 1,
                                           EnemyCount(game.wave_number + 1)) :
          LET r == update_wave_system(game, player, spawner, enemies, pc.dt, queue, walls)
          IN  /\ game' = r.game
              /\ player' = r.player
              /\ spawner' = r.spawner
              /\ enemies' = r.enemies
    /\ pc' = [pc EXCEPT !.at = "spawner"]
    /\ UNCHANGED <<weaponVars, auxVars, manager, kills, hits>>

\* The random draws of one EnemySpawner.update call; a single one when the
\* call spawns nothing.
Spawning(sp) == sp.spawn_timer <= 0 /\ QueueLen(sp.spawn_queue) > 0
SpawnDraws(sp, wave_number) ==
    IF Spawning(sp)
    THEN { [enemy_type |-> t, pos |-> pos, id |-> id, boss_id |-> boss_id, delay |-> delay] :
             t \in { u \in EnemyTypes : sp.spawn_queue[u] > 0 }, pos \in SpawnPositions,
             id \in EnemyIds, boss_id \in BossIds, delay \in SpawnDelays(wave_number) }
    ELSE { [enemy_type |-> "rusher", pos |-> <<0, 0>>, id |-> "enemy_1000",
            boss_id |-> "BOSS_1000", delay |-> 0] }

\* EnemySpawner.update: spawning, then every enemy's update.
SpawnerUpdate ==
    /\ pc.at = "spawner"
    /\ \E d \in SpawnDraws(spawner, game.wave_number) :
          LET s == SpawnNext(spawner, enemies, pc.dt, d.enemy_type, d.pos, d.id,
                             d.boss_id, d.delay)
          IN  \E fires \in [1..Len(s.enemies) -> BOOLEAN] :
                 LET r == UpdateEnemies(s.enemies, 1, pc.dt, fires,
                              [enemies |-> << >>, bullets |-> ManagerArg(manager.bullets),
                               raised |-> FALSE])
                 IN  /\ spawner' = s.spawner
                     /\ enemies' = r.enemies
                     /\ manager' = [manager EXCEPT !.bullets = r.bullets.items]
                     /\ pc' = [pc EXCEPT !.at = IF r.raised THEN "fault" ELSE "bullets"]
    /\ UNCHANGED <<weaponVars, auxVars, player, game, kills, hits>>

\* BulletManager.update
BulletsUpdate ==
    /\ pc.at = "bullets"
    /\ manager' = [manager EXCEPT !.bullets = BulletManager_update(manager.bullets, pc.dt)]
    /\ pc' = [pc EXCEPT !.at = "collide", !.bullet = 1]
    /\ UNCHANGED <<weaponVars, auxVars, player, enemies, spawner, game, kills, hits>>

\* Game._update_collision_detection, one round of the bullet loop: a dead
\* bullet is skipped, a bullet in a wall dies, any other is tried on the
\* entities it overlaps, in the order the grid's set yields them.
CollideBullet ==
    /\ pc.at = "collide" /\ pc.bullet <= Len(manager.bullets)
    /\ LET b == manager.bullets[pc.bullet]
       IN  IF ~b.alive
           THEN UNCHANGED <<player, enemies, manager, game, kills, hits>>
           ELSE IF check_bullet_wall_collision(game.walls, b.pos, BULLET_SIZE)
           THEN /\ manager' = [manager EXCEPT !.bullets[pc.bullet].alive = FALSE]
                /\ UNCHANGED <<player, enemies, game, kills, hits>>
           ELSE \E order \in Orders(check_bullet_entity_collision(player, enemies,
                                                                  b.pos, BULLET_SIZE)) :
                   LET targets == HitTargets(b, player, enemies, order)
                       w == ApplyHits(World(player, enemies, game.total_kills, kills, hits),
                                      b, targets, game.current_time)
                   IN  /\ player' = w.player
                       /\ enemies' = w.enemies
                       /\ game' = [game EXCEPT !.total_kills = w.total_kills]
                       /\ kills' = w.kills
                       /\ hits' = w.hits
                       /\ manager' = IF targets = << >> THEN manager
                                     ELSE [manager EXCEPT !.bullets[pc.bullet].alive = FALSE]
    /\ pc' = [pc EXCEPT !.bullet = pc.bullet + 1]
    /\ UNCHANGED <<weaponVars, auxVars, spawner>>

\* Game._update_collision_detection after the bullet loop: the enemies are
\* pushed apart, contact damage is dealt; the frame ends.
EntityCollisions ==
    /\ pc.at = "collide" /\ pc.bullet > Len(manager.bullets)
    /\ LET r == ContactDamage(player, ResolveEnemyPairs(enemies, 1, 2), 1, game.current_time)
       IN  /\ player' = r.player
           /\ enemies' = r.enemies
    /\ pc' = Phase("events", 0, 0, pc.frames + 1)
    /\ UNCHANGED <<weaponVars, auxVars, spawner, manager, game, kills, hits>>

Next ==
    \/ MouseDown \/ MouseUp \/ AddBullet
    \/ PlayerUpdate \/ UpdateWaveSystem \/ SpawnerUpdate
    \/ BulletsUpdate \/ CollideBullet \/ EntityCollisions

Spec == Init /\ [][Next]_vars

---------------------------------------------------------------------------
(* Properties of the game specification *)

Overlapped(b) == check_bullet_entity_collision(player, enemies, b.pos, BULLET_SIZE)

\* The hits that were not ignored and left an enemy with health <= 0.
KillingHits(hs) ==
    SelectSeq(hs, LAMBDA h : /\ h.target # PlayerRef
                             /\ ~h.invincible
                             /\ h.health_before - h.damage * HP <= 0)

\* C1: the health of every combatant, the player and each enemy, stays
\* within 0..max_health: damage that is not ignored leaves
\* max(0, health_before - amount).
C1_HealthInRange ==
    /\ 0 <= player.health /\ player.health <= player.max_health
    /\ \A i \in 1..Len(enemies) :
          0 <= enemies[i].health /\ enemies[i].health <= enemies[i].max_health

\* C2: an enemy's alive flag, once false, stays false; it is false exactly
\* when a take_damage call has left the enemy with health <= 0; each such
\* call makes exactly one Game.on_enemy_killed call, for that enemy and with
\* the owner id of the projectile that dealt the damage, and no enemy is
\* reported killed twice.
C2_DiesOnceWithKiller ==
    [][ /\ \A i \in 1..Len(enemies), j \in 1..Len(enemies') :
              (enemies[i].slot = enemies'[j].slot /\ ~enemies[i].alive)
                  => ~enemies'[j].alive
        /\ \A j \in 1..Len(enemies') :
              /\ enemies'[j].alive <=> enemies'[j].health > 0
              /\ ~enemies'[j].alive
                    => \E k \in 1..Len(kills') : kills'[k].enemy = enemies'[j].slot
        /\ Len(kills') = Len(KillingHits(hits'))
        /\ \A k \in 1..Len(kills') :
              /\ kills'[k].enemy = KillingHits(hits')[k].target
              /\ kills'[k].killer_id = KillingHits(hits')[k].owner_id
        /\ \A k, l \in 1..Len(kills') : kills'[k].enemy = kills'[l].enemy => k = l
        /\ game'.total_kills - game.total_kills = Len(kills') - Len(kills) ]_vars

\* An enemy killed by the player's bullet, and a later bullet of the same
\* pass that overlaps the dead enemy and has been dealt with.
C2_Witness ==
    /\ pc.at = "collide"
    /\ \E k \in 1..Len(kills), i \in 1..Len(enemies), n \in 1..Len(manager.bullets) :
          /\ kills[k].killer_id = "player"
          /\ enemies[i].slot = kills[k].enemy /\ ~enemies[i].alive
          /\ n < pc.bullet
          /\ enemies[i].slot \in Overlapped(manager.bullets[n])
          /\ \A m \in 1..Len(hits) :
                hits[m].bullet = manager.bullets[n].uid => hits[m].target # enemies[i].slot

\* C3: the bullet loop never calls take_damage on a combatant whose id is the
\* bullet's owner_id, and a bullet it marks dead has hit a wall or a combatant
\* with another id.
C3_OwnerNeverHit ==
    [][ /\ \A n \in 1..Len(hits') : hits'[n].owner_id # hits'[n].target_id
        /\ (pc.at = "collide" /\ pc.bullet <= Len(manager.bullets))
              => LET b == manager.bullets[pc.bullet]
                 IN  (b.alive /\ ~manager'.bullets[pc.bullet].alive)
                        => \/ check_bullet_wall_collision(game.walls, b.pos, BULLET_SIZE)
                           \/ /\ Len(hits') = Len(hits) + 1
                              /\ hits'[Len(hits')].bullet = b.uid
                              /\ hits'[Len(hits')].target_id # b.owner_id ]_vars

\* A bullet that overlapped both the living enemy that owns it and another
\* combatant, and hit the other; and in another state, a bullet that left
\* the pass alive although it overlapped its owner, the player.
C3_Witness ==
    /\ pc.at = "collide"
    /\ \E n \in 1..Len(manager.bullets) :
          LET b == manager.bullets[n]
          IN  /\ n < pc.bullet
              /\ ~b.alive
              /\ \E m \in 1..Len(hits) : hits[m].bullet = b.uid
              /\ \E ref \in Overlapped(b) :
                    /\ ref # PlayerRef
                    /\ entity_alive(player, enemies, ref)
                    /\ Combatant(player, enemies, ref).id = b.owner_id

\* C4: no projectile is behind two take_damage calls.  A call is made for
\* the bullet the loop is at, which is alive, on an entity it overlaps, and
\* the bullet is dead from then on, so that BulletManager.update removes it
\* before the next pass.
C4_AtMostOneHit ==
    [][ /\ \A m, n \in 1..Len(hits') : hits'[m].bullet = hits'[n].bullet => m = n
        /\ \A n \in 1..Len(manager'.bullets) :
              (\E m \in 1..Len(hits') : hits'[m].bullet = manager'.bullets[n].uid)
                  => ~manager'.bullets[n].alive
        /\ hits' # hits
              => /\ pc.at = "collide" /\ pc.bullet <= Len(manager.bullets)
                 /\ manager.bullets[pc.bullet].alive
                 /\ Len(hits') = Len(hits) + 1
                 /\ SubSeq(hits', 1, Len(hits)) = hits
                 /\ hits'[Len(hits')].bullet = manager.bullets[pc.bullet].uid
                 /\ hits'[Len(hits')].target \in Overlapped(manager.bullets[pc.bullet])
        /\ pc.at = "bullets"
              => \A n \in 1..Len(manager'.bullets) :
                    \A m \in 1..Len(hits) : hits[m].bullet # manager'.bullets[n].uid ]_vars

\* A bullet that has hit one of two entities it overlapped, both of which
\* would have passed the test.
C4_Witness ==
    /\ pc.at = "collide"
    /\ \E n \in 1..Len(manager.bullets), m \in 1..Len(hits) :
          LET b == manager.bullets[n]
          IN  /\ n < pc.bullet
              /\ hits[m].bullet = b.uid
              /\ \E ref \in Overlapped(b) :
                    /\ ref # hits[m].target
                    /\ CanHit(b, player, enemies, ref)

\* C5: no round of Game.run ends in an exception.  The only exception the
\* model raises is the one of a fire() call whose can_fire() is true.
C5_FiringStepCompletes == pc.at # "fault"

---------------------------------------------------------------------------
(* The bullet specification: a BulletManager and the Bullet objects it     *)
(* holds, driven through add_bullet, Bullet.update, BulletManager.update   *)
(* and the `bullet.alive = False` of the collision pass.                   *)

MaxSteps == 3       \* update calls per behaviour

\* BulletManager.add_bullet
BulletManager_add_bullet(m, b) ==
    [bullets |-> Append(m.bullets, ManagedBullet(b, m.bullet_count)),
     bullet_count |-> m.bullet_count + 1]

\* The arguments Bullet(pos, velocity, damage, owner_id) is built with: at
\* the screen centre, at rest or flying towards +x at the Pistol's speed.
BulletArgs ==
    { [pos |-> <<SCREEN_WIDTH \div 2, SCREEN_HEIGHT \div 2>>, velocity |-> <<0, 0>>],
      [pos |-> <<SCREEN_WIDTH \div 2, SCREEN_HEIGHT \div 2>>,
       velocity |-> vector_from_angle(<<1, 0>>, PISTOL_BULLET_SPEED)] }

\* The dt of an update call of this specification: whole seconds.
BulletDts == { UnitsPerSecond * d : d \in 1..MaxDt }

\* The entry of `flight` of the bullet with identity uid.
Flight(uid) == flight[uid + 1]

InitBullet ==
    /\ WeaponIdle
    /\ GameIdle
    /\ AuxIdle

\* A Bullet is built and handed to add_bullet.
BulletAdded ==
    /\ manager.bullet_count < MaxBullets
    /\ \E a \in BulletArgs :
          manager' = BulletManager_add_bullet(manager,
                         NewBullet(a.pos, a.velocity, PISTOL_DAMAGE, "player"))
    /\ flight' = Append(flight, [elapsed |-> 0, hit |-> FALSE, velocity |->
                                 manager'.bullets[Len(manager'.bullets)].velocity])
    /\ UNCHANGED <<weaponVars, player, enemies, spawner, game, pc, kills, hits,
                   scene, spatial_grid, result>>

\* Bullet.update(dt) of one bullet of the manager's list.
BulletStep ==
    /\ pc.frames < MaxSteps
    /\ \E i \in 1..Len(manager.bullets), dt \in BulletDts :
          /\ manager' = [manager EXCEPT !.bullets[i] = Bullet_update(@, dt)]
          /\ flight' = [flight EXCEPT ![manager.bullets[i].uid + 1].elapsed = @ + dt]
    /\ pc' = [pc EXCEPT !.frames = @ + 1]
    /\ UNCHANGED <<weaponVars, player, enemies, spawner, game, kills, hits,
                   scene, spatial_grid, result>>

\* BulletManager.update(dt)
ManagerStep ==
    /\ pc.frames < MaxSteps
    /\ \E dt \in BulletDts :
          /\ manager' = [manager EXCEPT !.bullets = BulletManager_update(@, dt)]
          /\ flight' = [u \in 1..Len(flight) |->
                          IF \E i \in 1..Len(manager.bullets) : manager.bullets[i].uid + 1 = u
                          THEN [flight[u] EXCEPT !.elapsed = @ + dt]
                          ELSE flight[u]]
    /\ pc' = [pc EXCEPT !.frames = @ + 1]
    /\ UNCHANGED <<weaponVars, player, enemies, spawner, game, kills, hits,
                   scene, spatial_grid, result>>

\* Game._update_collision_detection finds a live bullet in a wall or on an
\* entity it can hit.
BulletHit ==
    /\ \E i \in 1..Len(manager.bullets) :
          /\ manager.bullets[i].alive
          /\ manager' = [manager EXCEPT !.bullets[i].alive = FALSE]
          /\ flight' = [flight EXCEPT ![manager.bullets[i].uid + 1].hit = TRUE]
    /\ UNCHANGED <<weaponVars, player, enemies, spawner, game, pc, kills, hits,
                   scene, spatial_grid, result>>

NextBullet == BulletAdded \/ BulletStep \/ ManagerStep \/ BulletHit

SpecBullet == InitBullet /\ [][NextBullet]_vars

---------------------------------------------------------------------------
(* Properties of the bullet specification *)

\* The bullets of manager.bullets that were built at rest and that no
\* collision pass has marked.
AtRest == { i \in 1..Len(manager.bullets) :
              /\ manager.bullets[i].velocity = <<0, 0>>
              /\ ~Flight(manager.bullets[i].uid).hit }

\* C11: a projectile with zero velocity inside the world bounds, of lifetime
\* L = BULLET_LIFETIME, is alive after every update as long as the dt handed
\* to its updates adds up to less than L, and is not alive after the update
\* at which the sum reaches L; BulletManager.update then drops it from the
\* list, so a bullet at rest that left the list had its L seconds.
C11_AliveUntilLifetime ==
    /\ \A i \in AtRest :
          manager.bullets[i].alive
              <=> Flight(manager.bullets[i].uid).elapsed < BULLET_LIFETIME * UnitsPerSecond
    /\ \A u \in 1..Len(flight) :
          (/\ flight[u].velocity = <<0, 0>>
           /\ ~flight[u].hit
           /\ \A i \in 1..Len(manager.bullets) : manager.bullets[i].uid + 1 # u)
              => flight[u].elapsed >= BULLET_LIFETIME * UnitsPerSecond

\* A bullet at rest died at the update that brought the sum to exactly L,
\* while another one, one second short of L, is still alive.
C11_Witness ==
    /\ \E i \in AtRest :
          /\ ~manager.bullets[i].alive
          /\ Flight(manager.bullets[i].uid).elapsed = BULLET_LIFETIME * UnitsPerSecond
    /\ \E i \in AtRest :
          /\ manager.bullets[i].alive
          /\ Flight(manager.bullets[i].uid).elapsed
                 = (BULLET_LIFETIME - 1) * UnitsPerSecond

---------------------------------------------------------------------------
(* Properties of the game specification: the life of a projectile *)

\* The bullets of manager.bullets that are not alive, by identity.
DeadUids == { manager.bullets[i].uid : i \in { j \in 1..Len(manager.bullets) :
                                                  ~manager.bullets[j].alive } }

\* C12: the dead state of a projectile is absorbing.  As long as a bullet
\* that is not alive stays in BulletManager.bullets, its alive flag, position
\* and lifetime keep their values and no take_damage call is made for it, and
\* the next BulletManager.update removes it: the list that update leaves
\* holds live bullets only.
C12_DeadIsAbsorbing ==
    [][ /\ \A i \in 1..Len(manager.bullets) :
              ~manager.bullets[i].alive =>
                 /\ \A j \in 1..Len(manager'.bullets) :
                       manager'.bullets[j].uid = manager.bullets[i].uid
                           => manager'.bullets[j] = manager.bullets[i]
                 /\ \A k \in (Len(hits) + 1)..Len(hits') :
                       hits'[k].bullet # manager.bullets[i].uid
        /\ (pc.at = "bullets" /\ pc'.at = "collide")
              => \A j \in 1..Len(manager'.bullets) : manager'.bullets[j].alive
      ]_vars

\* In the collision pass of a second frame: the bullet that hit a combatant
\* in the first frame has left the list, after having stayed in it, dead,
\* until that frame's BulletManager.update.
C12_Witness ==
    /\ pc.at = "collide" /\ pc.frames = 1
    /\ \E k \in 1..Len(hits) :
          \A j \in 1..Len(manager.bullets) : manager.bullets[j].uid # hits[k].bullet

---------------------------------------------------------------------------
(* The cap specification: a BulletManager that is handed one bullet after  *)
(* the other, with frames in between.  Every bullet is a Rifle bullet      *)
(* fired at the right edge of the screen towards +x: the first update that *)
(* follows carries it off the screen.                                      *)

MAX_BULLETS_ON_SCREEN == 500

\* BulletManager.add_bullet for one more fire event.
CapShot ==
    /\ manager.bullet_count <= MAX_BULLETS_ON_SCREEN
    /\ manager' = BulletManager_add_bullet(manager,
                      NewBullet(<<SCREEN_WIDTH, SCREEN_HEIGHT \div 2>>,
                                vector_from_angle(<<1, 0>>, RIFLE_BULLET_SPEED),
                                RIFLE_DAMAGE, "player"))
    /\ UNCHANGED <<weaponVars, auxVars, player, enemies, spawner, game, pc, kills, hits>>

\* BulletManager.update with the dt of a slow frame.
CapStep ==
    /\ pc.frames < MaxFrames
    /\ manager' = [manager EXCEPT !.bullets = BulletManager_update(@, MAX_FRAME_DT)]
    /\ pc' = [pc EXCEPT !.frames = @ + 1]
    /\ UNCHANGED <<weaponVars, auxVars, player, enemies, spawner, game, kills, hits>>

NextCap == CapShot \/ CapStep

SpecCap == InitBullet /\ [][NextCap]_vars

\* C13: the number of live projectiles the BulletManager holds never exceeds
\* MAX_BULLETS_ON_SCREEN.
C13_LiveBulletsWithinCap ==
    Cardinality({ i \in 1..Len(manager.bullets) : manager.bullets[i].alive })
        <= MAX_BULLETS_ON_SCREEN

---------------------------------------------------------------------------
(* Properties of the game specification: the order of a frame *)

\* The calls of Game._update_game, and of _update_collision_detection within
\* it, that have returned in the current frame when Game.run stands at `at`.
Returned(at) ==
    CASE at = "wave"    -> {"player.update"}
      [] at = "spawner" -> {"player.update", "_update_wave_system"}
      [] at = "bullets" -> {"player.update", "_update_wave_system",
                            "enemy_spawner.update"}
      [] at = "collide" -> {"player.update", "_update_wave_system",
                            "enemy_spawner.update", "bullet_manager.update",
                            "clear_spatial_grid", "add_to_spatial_grid"}
      [] OTHER         -> {}

\* C14: in every frame the projectiles have been advanced and the spatial
\* grid has been rebuilt when enemy_spawner.update runs the enemies' AI and
\* moves them, and the enemies have moved when the projectiles are tried on
\* the walls and the entities.
C14_ProjectilesAndGridBeforeEnemies ==
    [][ /\ pc.at = "spawner"
            => {"bullet_manager.update", "add_to_spatial_grid"} \subseteq Returned(pc.at)
        /\ (pc.at = "collide" /\ pc.bullet <= Len(manager.bullets))
            => "enemy_spawner.update" \in Returned(pc.at)
      ]_vars

---------------------------------------------------------------------------
(* The grid specification: a CollisionManager whose spatial grid is        *)
(* rebuilt and queried by the collision pass of each frame, while between  *)
(* two passes the combatants move and dead enemies leave the active set.   *)
(* scene.objects holds the Player and Enemy objects by reference, those    *)
(* that left the active set included; scene.active the slots of            *)
(* EnemySpawner.enemies.  The grid is held as the set of its               *)
(* <<cell, object>> entries.                                               *)

MaxSlot == 1        \* Enemy objects of the grid specification

\* A clear_spatial_grid that keeps the entries.
clear_spatial_grid_keeping_entries(grid) == grid

\* CollisionManager.clear_spatial_grid
clear_spatial_grid(grid) == {}

\* CollisionManager.add_to_spatial_grid
add_to_spatial_grid(grid, ref, pos, radius) ==
    grid \cup { <<cell, ref>> : cell \in get_grid_cells_for_circle(pos, radius) }

\* main.py:288-295, the head of _update_collision_detection: the grid is
\* cleared, the player is added, then every enemy of the active set.
RECURSIVE AddEnemies(_, _, _)
AddEnemies(grid, objects, slots) ==
    IF slots = {} THEN grid
    ELSE LET ref == CHOOSE r \in slots : \A q \in slots : r <= q
         IN  AddEnemies(add_to_spatial_grid(grid, ref, objects[ref].pos, objects[ref].radius),
                        objects, slots \ {ref})

RebuildGrid(grid, objects, active) ==
    AddEnemies(add_to_spatial_grid(clear_spatial_grid(grid), PlayerRef,
                                   objects[PlayerRef].pos, objects[PlayerRef].radius),
               objects, active)

\* CollisionManager.check_bullet_entity_collision on a grid: the objects of
\* the cells the bullet touches, narrowed by the distance to obj.pos.
CollisionManager_check_bullet_entity_collision(grid, objects, bullet_pos, bullet_radius) ==
    LET grid_cells == get_grid_cells_for_circle(bullet_pos, bullet_radius)
        potential_colliders == { e[2] : e \in { g \in grid : g[1] \in grid_cells } }
    IN  { ref \in potential_colliders :
            DistSq(bullet_pos, objects[ref].pos)
                < (bullet_radius + objects[ref].radius) * (bullet_radius + objects[ref].radius) }

\* The scan the grid stands for: every combatant of the active set closer
\* to the bullet than the sum of the radii.
BruteForce(objects, active, bullet_pos, bullet_radius) ==
    { ref \in {PlayerRef} \cup active :
        DistSq(bullet_pos, objects[ref].pos)
            < (bullet_radius + objects[ref].radius) * (bullet_radius + objects[ref].radius) }

\* EnemySpawner.enemies of a scene, as the list of the game specification.
ActiveList(objects, active) ==
    SelectSeq([i \in 1..MaxSlot |-> [slot |-> i, pos |-> objects[i].pos,
                                      radius |-> objects[i].radius]],
              LAMBDA e : e.slot \in active)

\* Positions about the corner (128, 128) of four grid cells, and one far off.
GridPositions == { <<120, 100>>, <<140, 126>>, <<400, 300>> }
\* Bullets about the same corner: inside one cell, across an edge, across
\* the corner.
GridBulletPositions == { <<133, 100>>, <<126, 100>>, <<129, 127>>, <<150, 140>> }

InitGrid ==
    /\ WeaponIdle
    /\ GameIdle
    /\ flight = << >>
    /\ \E positions \in [0..MaxSlot -> GridPositions] :
          scene = [objects |-> [ref \in 0..MaxSlot |->
                                   [pos |-> positions[ref], radius |-> PLAYER_SIZE \div 2]],
                   active |-> 1..MaxSlot]
    /\ spatial_grid = {}
    /\ result = NoCall

\* Between two collision passes a combatant of the active set has moved.
GridMoved ==
    /\ \E ref \in {PlayerRef} \cup scene.active, pos \in GridPositions :
          /\ pos # scene.objects[ref].pos
          /\ scene' = [scene EXCEPT !.objects[ref].pos = pos]
    /\ UNCHANGED <<weaponVars, gameVars, flight, spatial_grid, result>>

\* EnemySpawner.update has removed a dead enemy from the active set; the
\* Enemy object stays where it died.
GridRemoved ==
    /\ \E ref \in scene.active : scene' = [scene EXCEPT !.active = @ \ {ref}]
    /\ UNCHANGED <<weaponVars, gameVars, flight, spatial_grid, result>>

\* The collision pass of a frame: the grid is rebuilt, then queried for a
\* bullet.  result.pass tells two passes with the same outcome apart.
GridPass ==
    /\ \E bullet_pos \in GridBulletPositions :
          LET grid == RebuildGrid(spatial_grid, scene.objects, scene.active)
          IN  /\ spatial_grid' = grid
              /\ result' = [name |-> "check_bullet_entity_collision",
                            bullet_pos |-> bullet_pos,
                            hit_entities |->
                                CollisionManager_check_bullet_entity_collision(
                                    grid, scene.objects, bullet_pos, BULLET_SIZE),
                            pass |-> IF result = NoCall THEN 0 ELSE 1 - result.pass]
    /\ UNCHANGED <<weaponVars, gameVars, flight, scene>>

NextGrid == GridMoved \/ GridRemoved \/ GridPass

SpecGrid == InitGrid /\ [][NextGrid]_vars

\* C15: the query of a collision pass returns exactly the combatants of the
\* active set, at their current positions, whose centre is closer to the
\* bullet than the sum of the radii: what a scan of the active set returns,
\* with no object left over from an earlier pass; it is also what the game
\* specification's check_bullet_entity_collision computes.
C15_GridQueryIsBruteForce ==
    [][ result' # result =>
          /\ result'.hit_entities
                 = BruteForce(scene'.objects, scene'.active, result'.bullet_pos, BULLET_SIZE)
          /\ result'.hit_entities
                 = check_bullet_entity_collision(scene'.objects[PlayerRef],
                       ActiveList(scene'.objects, scene'.active),
                       result'.bullet_pos, BULLET_SIZE)
      ]_vars

\* A pass found a combatant whose centre lies in none of the bullet's cells,
\* after an enemy within the bullet's reach had left the active set with
\* its entries of an earlier pass.
C15_Witness ==
    /\ result # NoCall /\ result.pass = 1
    /\ \E ref \in result.hit_entities :
          << scene.objects[ref].pos[1] \div GRID_SIZE,
             scene.objects[ref].pos[2] \div GRID_SIZE >>
              \notin get_grid_cells_for_circle(result.bullet_pos, BULLET_SIZE)
    /\ \E ref \in (1..MaxSlot) \ scene.active :
          /\ ref \notin result.hit_entities
          /\ ref \in BruteForce(scene.objects, 1..MaxSlot, result.bullet_pos, BULLET_SIZE)
          /\ spatial_grid = RebuildGrid({}, scene.objects, scene.active)

---------------------------------------------------------------------------
(* The resolution specification: CollisionManager.resolve_entity_wall_     *)
(* collision and resolve_entity_entity_collision called on drawn circles   *)
(* and walls.  Lengths are in 1/PX pixel here, so that COLLISION_EPSILON   *)
(* and half an overlap are whole numbers; the square root is the integer   *)
(* square root, exact for the offsets drawn (along an axis, or multiples   *)
(* of (3, 4)).                                                             *)

PX == 10
COLLISION_EPSILON == PX \div 10
TILE_SIZE == 32

\* CollisionManager.check_entity_wall_collision
check_entity_wall_collision(walls, entity_pos, entity_radius) ==
    \E i \in 1..Len(walls) : circle_rect_collision(entity_pos, entity_radius, walls[i])

\* A push that stops at the wall's edge, without COLLISION_EPSILON.
PushOut_without_epsilon(new_pos, wall, entity_pos, entity_radius) ==
    LET closest_x == Max(wall.left, Min(entity_pos[1], wall.right))
        closest_y == Max(wall.top, Min(entity_pos[2], wall.bottom))
        dx0 == entity_pos[1] - closest_x
        dy0 == entity_pos[2] - closest_y
        dx == IF dx0 = 0 /\ dy0 = 0
              THEN entity_pos[1] - (wall.left + wall.right) \div 2 ELSE dx0
        dy == IF dx0 = 0 /\ dy0 = 0
              THEN entity_pos[2] - (wall.top + wall.bottom) \div 2 ELSE dy0
        dist == isqrt(dx * dx + dy * dy)
        push_distance == entity_radius - dist
    IN  IF dist > 0
        THEN << new_pos[1] + (dx * push_distance) \div dist,
                new_pos[2] + (dy * push_distance) \div dist >>
        ELSE new_pos

\* The push of one wall on the circle at entity_pos, added to new_pos
\* (collision.py:71-90).
PushOut(new_pos, wall, entity_pos, entity_radius) ==
    LET closest_x == Max(wall.left, Min(entity_pos[1], wall.right))
        closest_y == Max(wall.top, Min(entity_pos[2], wall.bottom))
        dx0 == entity_pos[1] - closest_x
        dy0 == entity_pos[2] - closest_y
        dx == IF dx0 = 0 /\ dy0 = 0
              THEN entity_pos[1] - (wall.left + wall.right) \div 2 ELSE dx0
        dy == IF dx0 = 0 /\ dy0 = 0
              THEN entity_pos[2] - (wall.top + wall.bottom) \div 2 ELSE dy0
        dist == isqrt(dx * dx + dy * dy)
        push_distance == entity_radius - dist + COLLISION_EPSILON
    IN  IF dist > 0
        THEN << new_pos[1] + (dx * push_distance) \div dist,
                new_pos[2] + (dy * push_distance) \div dist >>
        ELSE new_pos

\* A resolve_entity_wall_collision that pushes without testing for a collision.
RECURSIVE resolve_entity_wall_collision_untested(_, _, _)
resolve_entity_wall_collision_untested(walls, entity_pos, entity_radius) ==
    IF walls = << >> THEN entity_pos
    ELSE PushOut(resolve_entity_wall_collision_untested(
                     SubSeq(walls, 1, Len(walls) - 1), entity_pos, entity_radius),
                 walls[Len(walls)], entity_pos, entity_radius)

\* CollisionManager.resolve_entity_wall_collision: every wall the circle at
\* entity_pos collides with adds its push to new_pos, in list order.
RECURSIVE resolve_entity_wall_collision(_, _, _)
resolve_entity_wall_collision(walls, entity_pos, entity_radius) ==
    IF walls = << >> THEN entity_pos
    ELSE LET new_pos == resolve_entity_wall_collision(
                            SubSeq(walls, 1, Len(walls) - 1), entity_pos, entity_radius)
             wall == walls[Len(walls)]
         IN  IF circle_rect_collision(entity_pos, entity_radius, wall)
             THEN PushOut(new_pos, wall, entity_pos, entity_radius)
             ELSE new_pos

\* A wall of generate_arena, two tiles by one, and a second one beside it.
WallA == Rect(200 * PX, 200 * PX, 2 * TILE_SIZE * PX, TILE_SIZE * PX)
WallB == Rect(100 * PX, 200 * PX, 2 * TILE_SIZE * PX, TILE_SIZE * PX)
WallLists == { << >>, << WallA >>, << WallB, WallA >> }

\* The radius of a combatant and of a boss.
Radii == { (PLAYER_SIZE \div 2) * PX,
           (((PLAYER_SIZE \div 2) * BOSS_SIZE_MULTIPLIER_NUM) \div BOSS_SIZE_MULTIPLIER_DEN) * PX }

\* Centres about WallA: far off; beside the corner and over it, along
\* (3, 4); one unit short of touching the left side, touching it, and into
\* it; inside the wall, far from its centre and near it; at the wall's centre.
WallProbes ==
    { << 50 * PX, 50 * PX >>,
      << 190 * PX, 190 * PX >>,
      << 194 * PX, 192 * PX >>,
      << 226 * PX, 216 * PX >>,
      << 200 * PX - (PLAYER_SIZE \div 2) * PX - 1, 216 * PX >>,
      << 200 * PX - (PLAYER_SIZE \div 2) * PX, 216 * PX >>,
      << 190 * PX, 216 * PX >>,
      << 210 * PX, 216 * PX >>,
      << 232 * PX, 216 * PX >> }

\* Offsets from the first circle to the second: none, along an axis, along
\* (3, 4); overlapping, touching and apart for the radii above.
PairOffsets ==
    { << 0, 0 >>, << 10 * PX, 0 >>, << 0, -10 * PX >>, << 6 * PX, 8 * PX >>,
      << -12 * PX, -16 * PX >>, << 24 * PX, 0 >>, << 18 * PX, 24 * PX >>,
      << 36 * PX, 0 >>, << 40 * PX, 0 >> }

InitResolve ==
    /\ WeaponIdle
    /\ GameIdle
    /\ flight = << >>
    /\ spatial_grid = {}
    /\ result = NoCall
    /\ \E walls \in WallLists, pos \in WallProbes, ra \in Radii, rb \in Radii,
          offset \in PairOffsets :
          scene = [walls |-> walls,
                   a |-> [pos |-> pos, radius |-> ra],
                   b |-> [pos |-> << pos[1] + offset[1], pos[2] + offset[2] >>,
                          radius |-> rb]]

\* resolve_entity_wall_collision(a.pos, a.radius)
ResolveWall ==
    /\ result' = [name |-> "resolve_entity_wall_collision",
                  walls |-> scene.walls, pos |-> scene.a.pos, radius |-> scene.a.radius,
                  value |-> resolve_entity_wall_collision(scene.walls, scene.a.pos,
                                                          scene.a.radius)]
    /\ UNCHANGED <<weaponVars, gameVars, flight, spatial_grid, scene>>

\* resolve_entity_entity_collision(a.pos, a.radius, b.pos, b.radius), whose
\* callers move both circles to the positions returned (main.py:347-350).
ResolvePair ==
    /\ LET r == resolve_entity_entity_collision(scene.a.pos, scene.a.radius,
                                                scene.b.pos, scene.b.radius)
       IN  /\ result' = [name |-> "resolve_entity_entity_collision",
                         pos1 |-> scene.a.pos, radius1 |-> scene.a.radius,
                         pos2 |-> scene.b.pos, radius2 |-> scene.b.radius,
                         value |-> r]
           /\ scene' = [scene EXCEPT !.a.pos = r[1], !.b.pos = r[2]]
    /\ UNCHANGED <<weaponVars, gameVars, flight, spatial_grid>>

NextResolve == ResolveWall \/ ResolvePair

SpecResolve == InitResolve /\ [][NextResolve]_vars

\* C16: resolve_entity_wall_collision called for a circle that collides with
\* none of the walls (check_entity_wall_collision is false) returns the
\* position it was given, for every wall list and radius.
C16_ClearOfWallsUnchanged ==
    (/\ result.name = "resolve_entity_wall_collision"
     /\ ~check_entity_wall_collision(result.walls, result.pos, result.radius))
        => result.value = result.pos

\* The call was made for a circle one unit short of touching a wall, with
\* two walls in the list.
C16_Witness ==
    /\ result.name = "resolve_entity_wall_collision"
    /\ Len(result.walls) = 2
    /\ ~check_entity_wall_collision(result.walls, result.pos, result.radius)
    /\ check_entity_wall_collision(result.walls, result.pos, result.radius + 1)
    /\ result.value = result.pos

\* C17: resolve_entity_entity_collision returns both positions unchanged
\* when the centres are at least radius1 + radius2 apart or coincide; for an
\* overlapping pair with distinct centres it moves each centre by half the
\* overlap along the line of the centres, away from the other, so that the
\* pair ends at distance radius1 + radius2 with its midpoint where it was;
\* and applied to what it returned it changes nothing.
C17_PushApartIsIdempotent ==
    result.name = "resolve_entity_entity_collision" =>
        LET p1 == result.pos1
            p2 == result.pos2
            q1 == result.value[1]
            q2 == result.value[2]
            min_dist == result.radius1 + result.radius2
            overlap == min_dist - isqrt(DistSq(p1, p2))
        IN  /\ (DistSq(p1, p2) >= min_dist * min_dist \/ p1 = p2)
                  => (q1 = p1 /\ q2 = p2)
            /\ (DistSq(p1, p2) < min_dist * min_dist /\ p1 # p2)
                  => /\ DistSq(q1, q2) = min_dist * min_dist
                     /\ q1[1] + q2[1] = p1[1] + p2[1]
                     /\ q1[2] + q2[2] = p1[2] + p2[2]
                     /\ 4 * DistSq(p1, q1) = overlap * overlap
                     /\ 4 * DistSq(p2, q2) = overlap * overlap
                     /\ (q1[1] - p1[1]) * (p1[2] - p2[2])
                            = (q1[2] - p1[2]) * (p1[1] - p2[1])
                     /\ (q1[1] - p1[1]) * (p1[1] - p2[1])
                            + (q1[2] - p1[2]) * (p1[2] - p2[2]) > 0
            /\ resolve_entity_entity_collision(q1, result.radius1, q2, result.radius2)
                   = << q1, q2 >>

\* The call pushed apart a combatant and a boss that overlapped off the
\* axes, and was then applied again to the pair it had separated.
C17_Witness ==
    /\ result.name = "resolve_entity_entity_collision"
    /\ result.radius1 # result.radius2
    /\ result.pos1[1] # result.pos2[1] /\ result.pos1[2] # result.pos2[2]
    /\ DistSq(result.pos1, result.pos2)
           = (result.radius1 + result.radius2) * (result.radius1 + result.radius2)
    /\ result.value = << result.pos1, result.pos2 >>
    /\ scene.a.pos \notin WallProbes

---------------------------------------------------------------------------
(* The spawn specification: CollisionManager.find_valid_spawn_position     *)
(* called on drawn walls, points, radii and attempt counts; lengths in     *)
(* whole pixels.                                                           *)

\* CollisionManager.is_position_valid
is_position_valid(walls, pos, radius) ==
    /\ ~(\/ pos[1] - radius < 0 \/ pos[1] + radius > SCREEN_WIDTH
         \/ pos[2] - radius < 0 \/ pos[2] + radius > SCREEN_HEIGHT)
    /\ ~check_entity_wall_collision(walls, pos, radius)

\* CollisionManager.find_valid_spawn_position.  A valid preferred point is
\* returned as it is.  Otherwise the first round of the ring loop evaluates
\* `math.pi`, and collision.py imports no `math` (collision.py:6-9): the
\* call raises NameError before any candidate is tried.  With max_attempts
\* <= 0 neither loop has a round and the screen centre is returned,
\* untested.
find_valid_spawn_position(walls, preferred_pos, radius, max_attempts) ==
    IF is_position_valid(walls, preferred_pos, radius)
    THEN [raised |-> "", value |-> preferred_pos]
    ELSE IF max_attempts > 0
    THEN [raised |-> "NameError", value |-> << >>]
    ELSE [raised |-> "", value |-> << SCREEN_WIDTH \div 2, SCREEN_HEIGHT \div 2 >>]

\* Five walls about the screen centre: four that close a room of 160 by 160
\* pixels around it, and one outside the room.
Enclosure ==
    << Rect(SCREEN_WIDTH \div 2 - 100, SCREEN_HEIGHT \div 2 - 100, 200, 20),
       Rect(SCREEN_WIDTH \div 2 - 100, SCREEN_HEIGHT \div 2 + 80, 200, 20),
       Rect(SCREEN_WIDTH \div 2 - 100, SCREEN_HEIGHT \div 2 - 80, 20, 160),
       Rect(SCREEN_WIDTH \div 2 + 80, SCREEN_HEIGHT \div 2 - 80, 20, 160),
       Rect(200, 200, 2 * TILE_SIZE, TILE_SIZE) >>

\* The points strictly inside the room the first four walls of Enclosure close.
InsideEnclosure(pos) ==
    /\ Enclosure[3].right < pos[1] /\ pos[1] < Enclosure[4].left
    /\ Enclosure[1].bottom < pos[2] /\ pos[2] < Enclosure[2].top

SpawnWalls == { << >>, << Rect(200, 200, 2 * TILE_SIZE, TILE_SIZE) >>, Enclosure }

\* Preferred points: the screen centre, two points of the room near its
\* walls, a point in the outer wall, a point at the screen's corner, a point
\* in the open.
SpawnPoints ==
    { << SCREEN_WIDTH \div 2, SCREEN_HEIGHT \div 2 >>,
      << SCREEN_WIDTH \div 2 - 70, SCREEN_HEIGHT \div 2 >>,
      << SCREEN_WIDTH \div 2 + 64, SCREEN_HEIGHT \div 2 - 65 >>,
      << 210, 210 >>, << 5, 5 >>, << 900, 500 >> }

AttemptCounts == { 0, 1, 10 }

InitSpawn ==
    /\ WeaponIdle
    /\ GameIdle
    /\ flight = << >>
    /\ spatial_grid = {}
    /\ result = NoCall
    /\ \E walls \in SpawnWalls, pos \in SpawnPoints, max_attempts \in AttemptCounts,
          radius \in { PLAYER_SIZE \div 2,
                       ((PLAYER_SIZE \div 2) * BOSS_SIZE_MULTIPLIER_NUM)
                           \div BOSS_SIZE_MULTIPLIER_DEN } :
          scene = [walls |-> walls, preferred_pos |-> pos, radius |-> radius,
                   max_attempts |-> max_attempts]

\* find_valid_spawn_position(preferred_pos, radius, max_attempts)
FindSpawn ==
    /\ result = NoCall
    /\ LET r == find_valid_spawn_position(scene.walls, scene.preferred_pos,
                                          scene.radius, scene.max_attempts)
       IN  result' = [name |-> "find_valid_spawn_position",
                      raised |-> r.raised, value |-> r.value]
    /\ UNCHANGED <<weaponVars, gameVars, flight, spatial_grid, scene>>

NextSpawn == FindSpawn

SpecSpawn == InitSpawn /\ [][NextSpawn]_vars

\* C18: find_valid_spawn_position returns a position for every preferred
\* point, radius, wall set and max_attempts; it never raises.
C18_FindSpawnAlwaysReturns ==
    result.name = "find_valid_spawn_position"
        => (result.raised = "" /\ Len(result.value) = 2)

\* C19: with walls that enclose the screen centre and a preferred point
\* inside the enclosure, the position find_valid_spawn_position returns
\* satisfies is_position_valid.
C19_EnclosedSpawnIsValid ==
    (/\ result.name = "find_valid_spawn_position"
     /\ scene.walls = Enclosure
     /\ InsideEnclosure(scene.preferred_pos))
        => /\ result.raised = ""
           /\ is_position_valid(scene.walls, result.value, scene.radius)

---------------------------------------------------------------------------
(* The dodger specification: the AI of one dodger, AIBehavior.update with  *)
(* DodgerAI._make_decision, run on drawn scenes: the player near, farther  *)
(* or out of detection range, the line of sight clear or cut by a wall,    *)
(* and the bullets of BulletManager.bullets about the dodger.              *)

AI_UPDATE_RATE == 6
DODGER_BULLET_DODGE_RADIUS == 100
DODGER_DETECTION_RANGE == 350
DODGER_ATTACK_RANGE == 200
DODGER_DASH_COOLDOWN == 2 * UnitsPerSecond
SpeedUnit == 100    \* the bullet speeds are multiples of 100 pixels per second

\* AIBehavior._detect_incoming_bullets, the test of one bullet: not the
\* entity's own, alive, its direction within the cone dot > 0.7 of the
\* direction to the entity, and closer than DODGER_BULLET_DODGE_RADIUS.  The
\* dot product of the two unit vectors is compared on the squares, with the
\* velocity in SpeedUnit, which leaves its direction as it is;
\* normalize_vector gives (0, 0) for a zero vector, hence a dot product of 0.
IsIncoming(b, entity) ==
    LET tx == entity.pos[1] - b.pos[1]
        ty == entity.pos[2] - b.pos[2]
        vx == b.velocity[1] \div SpeedUnit
        vy == b.velocity[2] \div SpeedUnit
        dot == vx * tx + vy * ty
        v2 == vx * vx + vy * vy
        t2 == tx * tx + ty * ty
    IN  /\ b.owner_id # entity.id
        /\ b.alive
        /\ dot > 0
        /\ 100 * dot * dot > 49 * v2 * t2
        /\ t2 < DODGER_BULLET_DODGE_RADIUS * DODGER_BULLET_DODGE_RADIUS

\* AIBehavior._detect_incoming_bullets: the velocities of the incoming
\* bullets, in list order.
detect_incoming_bullets(bullets, entity) ==
    LET incoming == SelectSeq(bullets, LAMBDA b : IsIncoming(b, entity))
    IN  [i \in 1..Len(incoming) |-> incoming[i].velocity]

\* AIBehavior._can_see_player; line_of_sight is the scene's `clear`.
can_see_player(sc) ==
    /\ DistSq(sc.entity.pos, sc.player_pos)
           <= DODGER_DETECTION_RANGE * DODGER_DETECTION_RANGE
    /\ sc.clear

\* A _make_decision that looks at the player before it looks at the bullets.
DodgerAI_make_decision_attack_first(sc) ==
    LET incoming_bullets == detect_incoming_bullets(sc.bullets, sc.entity)
        near == DistSq(sc.entity.pos, sc.player_pos)
                    < DODGER_ATTACK_RANGE * DODGER_ATTACK_RANGE
        state == IF near /\ can_see_player(sc) THEN "ATTACK"
                 ELSE IF incoming_bullets # << >> /\ sc.ai.dodge_cooldown <= 0 THEN "DODGE"
                 ELSE IF can_see_player(sc) THEN "CHASE"
                 ELSE "PATROL"
    IN  [state |-> state,
         should_fire |-> state = "ATTACK" /\ can_see_player(sc),
         dash |-> state = "DODGE" /\ sc.ai.dash_cooldown <= 0]

\* DodgerAI._make_decision: the state chosen, the fire intent, and whether
\* the dodge is a dash.
DodgerAI_make_decision(sc) ==
    LET incoming_bullets == detect_incoming_bullets(sc.bullets, sc.entity)
        near == DistSq(sc.entity.pos, sc.player_pos)
                    < DODGER_ATTACK_RANGE * DODGER_ATTACK_RANGE
        state == IF incoming_bullets # << >> /\ sc.ai.dodge_cooldown <= 0 THEN "DODGE"
                 ELSE IF near /\ can_see_player(sc) THEN "ATTACK"
                 ELSE IF can_see_player(sc) THEN "CHASE"
                 ELSE "PATROL"
    IN  [state |-> state,
         should_fire |-> state = "ATTACK" /\ can_see_player(sc),
         dash |-> state = "DODGE" /\ sc.ai.dash_cooldown <= 0]

\* The bullets about a dodger at the screen centre: the player's, flying
\* towards +x from 60 pixels behind it, from 50 pixels off at dot 0.8 and at
\* dot 0.6, from the dodge radius exactly, and flying away; a dead one and
\* one of the dodger's own, both flying at it.
DodgerBullets ==
    { [pos |-> << 580, 360 >>, velocity |-> << PISTOL_BULLET_SPEED, 0 >>,
       owner_id |-> "player", alive |-> TRUE],
      [pos |-> << 600, 330 >>, velocity |-> << PISTOL_BULLET_SPEED, 0 >>,
       owner_id |-> "player", alive |-> TRUE],
      [pos |-> << 610, 320 >>, velocity |-> << PISTOL_BULLET_SPEED, 0 >>,
       owner_id |-> "player", alive |-> TRUE],
      [pos |-> << 540, 360 >>, velocity |-> << PISTOL_BULLET_SPEED, 0 >>,
       owner_id |-> "player", alive |-> TRUE],
      [pos |-> << 580, 360 >>, velocity |-> << -PISTOL_BULLET_SPEED, 0 >>,
       owner_id |-> "player", alive |-> TRUE],
      [pos |-> << 580, 360 >>, velocity |-> << PISTOL_BULLET_SPEED, 0 >>,
       owner_id |-> "player", alive |-> FALSE],
      [pos |-> << 580, 360 >>, velocity |-> << SMG_BULLET_SPEED, 0 >>,
       owner_id |-> "enemy_1000", alive |-> TRUE] }

DodgerBulletLists ==
    UNION { [1..n -> DodgerBullets] : n \in 0..MaxBullets }

InitDodger ==
    /\ WeaponIdle
    /\ GameIdle
    /\ flight = << >>
    /\ spatial_grid = {}
    /\ result = NoCall
    /\ \E bullets \in DodgerBulletLists, clear \in BOOLEAN,
          px \in { 740, 940, 1100 }, decision_cooldown \in { 0, 2 * Tick } :
          scene = [entity |-> [id |-> "enemy_1000",
                               pos |-> << SCREEN_WIDTH \div 2, SCREEN_HEIGHT \div 2 >>],
                   player_pos |-> << px, SCREEN_HEIGHT \div 2 >>,
                   clear |-> clear,
                   bullets |-> bullets,
                   ai |-> [state |-> "PATROL", decision_cooldown |-> decision_cooldown,
                           dodge_cooldown |-> 0, dash_cooldown |-> 0]]

\* AIBehavior.update(dt, player, all_entities) of the dodger: the cooldowns
\* run, and when decision_cooldown is used up a decision is made and
\* executed.  result.cycle tells two decision cycles apart.
DodgerUpdate ==
    /\ pc.frames < MaxFrames
    /\ \E dt \in FrameTimes :
          LET ai == [scene.ai EXCEPT !.decision_cooldown = @ - dt,
                                     !.dodge_cooldown = @ - dt]
              sc == [scene EXCEPT !.ai = ai]
              decision == DodgerAI_make_decision(sc)
          IN  IF ai.decision_cooldown <= 0
              THEN /\ scene' = [sc EXCEPT
                                  !.ai.state = decision.state,
                                  !.ai.dash_cooldown =
                                      IF decision.dash THEN DODGER_DASH_COOLDOWN ELSE @,
                                  !.ai.decision_cooldown = UnitsPerSecond \div AI_UPDATE_RATE]
                   /\ result' = [name |-> "_make_decision",
                                 state |-> decision.state,
                                 should_fire |-> decision.should_fire,
                                 fire_weapon |-> decision.should_fire /\ can_see_player(sc),
                                 cycle |-> IF result = NoCall THEN 0 ELSE 1 - result.cycle]
              ELSE /\ scene' = sc
                   /\ UNCHANGED result
    /\ pc' = [pc EXCEPT !.frames = @ + 1]
    /\ UNCHANGED <<weaponVars, player, enemies, spawner, manager, game, kills, hits,
                   flight, spatial_grid>>

NextDodger == DodgerUpdate

SpecDodger == InitDodger /\ [][NextDodger]_vars

\* A live projectile that is not the dodger's own lies within
\* DODGER_BULLET_DODGE_RADIUS of it and flies at it: the cosine of the angle
\* between its velocity and the direction from it to the dodger exceeds 0.7.
Threatened ==
    \E i \in 1..Len(scene.bullets) :
        LET b == scene.bullets[i]
            tx == scene.entity.pos[1] - b.pos[1]
            ty == scene.entity.pos[2] - b.pos[2]
            v == << b.velocity[1] \div SpeedUnit, b.velocity[2] \div SpeedUnit >>
            dot == v[1] * tx + v[2] * ty
        IN  /\ b.alive /\ b.owner_id # scene.entity.id
            /\ tx * tx + ty * ty < DODGER_BULLET_DODGE_RADIUS * DODGER_BULLET_DODGE_RADIUS
            /\ dot > 0
            /\ 100 * dot * dot > 49 * DistSq(<<0, 0>>, v) * (tx * tx + ty * ty)

\* C20: on every decision cycle of a dodger that is threatened by such a
\* projectile the decision state is DODGE and there is no fire intent (and
\* fire_weapon is not called), wherever the player is and whether or not the
\* dodger sees it.
C20_DodgeOverridesAttack ==
    [][ (result' # result /\ Threatened)
            => /\ result'.state = "DODGE"
               /\ ~result'.should_fire
               /\ ~result'.fire_weapon
               /\ scene'.ai.state = "DODGE"
      ]_vars

\* A dodger that sees the player within attack range, with a bullet coming
\* at it off the axis behind one that is not, has decided to dodge.
C20_Witness ==
    /\ result # NoCall /\ result.state = "DODGE"
    /\ scene.clear
    /\ DistSq(scene.entity.pos, scene.player_pos)
           < DODGER_ATTACK_RANGE * DODGER_ATTACK_RANGE
    /\ Len(scene.bullets) = 2
    /\ ~IsIncoming(scene.bullets[1], scene.entity)
    /\ scene.bullets[2].pos[2] # scene.entity.pos[2]

---------------------------------------------------------------------------
(* ai_behaviors.py, enemy.py: the AI of a rusher and of a sniper, and      *)
(* Enemy.update in full.  Positions and radii are held in 1/PX pixels,     *)
(* speeds in pixels per second, directions in 1/DirUnit.  None is the      *)
(* record NoRef for an object and << >> for a position.                    *)

PLAYER_SPEED == 200
RUSHER_SPEED == 150
RUSHER_ATTACK_RANGE == 200
RUSHER_DETECTION_RANGE == 400
SNIPER_SPEED == 100
SNIPER_PREFERRED_RANGE == 400
SNIPER_RETREAT_RANGE == 300
SNIPER_DETECTION_RANGE == 600
FLANKER_SPEED == 130
FLANKER_DETECTION_RANGE == 500
FLANKER_ATTACK_RANGE == 300
FLANK_DISTANCE == 250

NoRef == [id |-> "None"]

\* AIDecision.__init__
AIDecision ==
    [state |-> "PATROL", target_pos |-> << >>, should_fire |-> FALSE,
     move_direction |-> << 0, 0 >>, look_direction |-> << 1, 0 >>]

\* Rusher.__init__, Sniper.__init__ and Flanker.__init__ followed by
\* set_ai_behavior: the speed of the class, the detection range the AI's
\* constructor sets, no movement intent, looking along angle 0.
ArmedEnemy(enemy_type, pos, id, slot) ==
    [NewEnemy(enemy_type, pos, id, slot) EXCEPT !.radius = @ * PX]
    @@ [speed |-> CASE enemy_type = "rusher" -> RUSHER_SPEED
                    [] enemy_type = "sniper" -> SNIPER_SPEED
                    [] OTHER -> FLANKER_SPEED,
        detection_range |-> CASE enemy_type = "rusher" -> RUSHER_DETECTION_RANGE
                              [] enemy_type = "sniper" -> SNIPER_DETECTION_RANGE
                              [] OTHER -> FLANKER_DETECTION_RANGE,
        move_direction |-> << 0, 0 >>,
        look_direction |-> << 1, 0 >>]

\* AIBehavior.__init__, and FlankerAI.__init__ for the last two fields; the
\* path_update_timer is held in sixtieths of a second.
NewAI ==
    [state |-> "PATROL", decision_cooldown |-> 0, last_seen_player_pos |-> << >>,
     player_velocity_memory |-> << >>, flank_position |-> << >>, path_update_timer |-> 0]

\* AIBehavior._can_see_player
AIBehavior_can_see_player(sc) ==
    /\ sc.target # NoRef
    /\ DistSq(sc.entity.pos, sc.target.pos)
           <= (sc.entity.detection_range * PX) * (sc.entity.detection_range * PX)
    /\ line_of_sight(sc.entity.pos, sc.target.pos, sc.walls)

\* AIBehavior._update_player_memory: the player's velocity is appended (None
\* has no velocity) and the entries older than memory_duration by the wall
\* clock are dropped: none of them, or, after a stall, all the old ones.
\* Only the last five entries are ever read.
update_player_memory(memory, target, stalled) ==
    LET kept  == IF stalled THEN << >> ELSE memory
        added == IF target # NoRef THEN Append(kept, target.velocity) ELSE kept
    IN  IF Len(added) > 5 THEN SubSeq(added, Len(added) - 4, Len(added)) ELSE added

RECURSIVE SumVelocity(_)
SumVelocity(memory) ==
    IF memory = << >> THEN << 0, 0 >>
    ELSE LET rest == SumVelocity(Tail(memory))
         IN  << Head(memory)[1] + rest[1], Head(memory)[2] + rest[2] >>

\* AIBehavior._get_predicted_player_position(0.5), called with a target: the
\* position num / den, the player's position plus half a second of the
\* average of the remembered velocities.
get_predicted_player_position(sc) ==
    IF sc.ai.player_velocity_memory # << >>
    THEN LET count == Len(sc.ai.player_velocity_memory)
             total == SumVelocity(sc.ai.player_velocity_memory)
         IN  [num |-> << sc.target.pos[1] * (2 * count) + total[1] * PX,
                         sc.target.pos[2] * (2 * count) + total[2] * PX >>,
              den |-> 2 * count]
    ELSE [num |-> sc.target.pos, den |-> 1]

\* The position last seen after the sight test of _make_decision.
LastSeen(sc) ==
    IF AIBehavior_can_see_player(sc) THEN sc.target.pos ELSE sc.ai.last_seen_player_pos

\* RusherAI._make_decision.  atan2 of a normalized vector is the angle of
\* the vector.
RusherAI_make_decision(sc) ==
    IF sc.target = NoRef
    THEN AIDecision
    ELSE LET d2 == DistSq(sc.entity.pos, sc.target.pos)
             can_see == AIBehavior_can_see_player(sc)
             last_seen == LastSeen(sc)
             state == IF d2 < (RUSHER_ATTACK_RANGE * PX) * (RUSHER_ATTACK_RANGE * PX) /\ can_see
                      THEN "ATTACK"
                      ELSE IF \/ can_see
                              \/ d2 < (sc.entity.detection_range * PX)
                                          * (sc.entity.detection_range * PX)
                      THEN "CHASE"
                      ELSE "PATROL"
             to_player == << last_seen[1] - sc.entity.pos[1],
                             last_seen[2] - sc.entity.pos[2] >>
             moves == state \in {"CHASE", "ATTACK"} /\ last_seen # << >>
         IN  [state |-> state,
              target_pos |-> IF moves THEN last_seen ELSE << >>,
              should_fire |-> state = "ATTACK" /\ can_see,
              move_direction |-> IF moves THEN normalize_vector(to_player) ELSE << 0, 0 >>,
              look_direction |-> IF moves THEN atan2(to_player[2], to_player[1])
                                          ELSE << 1, 0 >>]

\* SniperAI._make_decision
SniperAI_make_decision(sc) ==
    IF sc.target = NoRef
    THEN AIDecision
    ELSE LET d2 == DistSq(sc.entity.pos, sc.target.pos)
             can_see == AIBehavior_can_see_player(sc)
             last_seen == LastSeen(sc)
             near == (SNIPER_PREFERRED_RANGE - 50) * PX
             far  == (SNIPER_PREFERRED_RANGE + 50) * PX
             state == IF d2 < (SNIPER_RETREAT_RANGE * PX) * (SNIPER_RETREAT_RANGE * PX)
                         /\ can_see
                      THEN "RETREAT"
                      ELSE IF d2 > near * near /\ d2 < far * far /\ can_see
                      THEN "ATTACK"
                      ELSE IF can_see THEN "CHASE"
                      ELSE "PATROL"
             away == << sc.entity.pos[1] - last_seen[1],
                        sc.entity.pos[2] - last_seen[2] >>
             predicted == get_predicted_player_position(sc)
             to_predicted == << predicted.num[1] - predicted.den * sc.entity.pos[1],
                                predicted.num[2] - predicted.den * sc.entity.pos[2] >>
         IN  IF last_seen = << >> \/ state = "PATROL"
             THEN [AIDecision EXCEPT !.state = state]
             ELSE IF state = "RETREAT"
             THEN [AIDecision EXCEPT
                      !.state = state,
                      !.move_direction = normalize_vector(away),
                      !.look_direction =
                          LET direction == normalize_vector(away)
                          IN  IF direction = << 0, 0 >> THEN << 1, 0 >>
                              ELSE atan2(-away[2], -away[1])]
             ELSE IF state = "CHASE"
             THEN [AIDecision EXCEPT
                      !.state = state,
                      !.move_direction =
                          IF d2 > (SNIPER_PREFERRED_RANGE * PX) * (SNIPER_PREFERRED_RANGE * PX)
                          THEN normalize_vector(<< -away[1], -away[2] >>)
                          ELSE << 0, 0 >>,
                      !.look_direction = atan2(-away[2], -away[1])]
             ELSE [AIDecision EXCEPT
                      !.state = state,
                      !.look_direction = atan2(to_predicted[2], to_predicted[1]),
                      !.should_fire = TRUE]

\* The walls and a circle in whole pixels.
InPixels(walls) ==
    [i \in 1..Len(walls) |->
        [left |-> walls[i].left \div PX, top |-> walls[i].top \div PX,
         right |-> walls[i].right \div PX, bottom |-> walls[i].bottom \div PX]]

\* FlankerAI._calculate_flank_position, called with a position last seen and
\* a target: the points FLANK_DISTANCE to the left and to the right of the
\* player's facing; the one farther from the entity, or the other one if
\* that is not a valid position, or the entity's own position.
calculate_flank_position(sc, last_seen) ==
    LET facing == normalize_vector(sc.target.look_direction)
        left_pos  == << last_seen[1] - (facing[2] * FLANK_DISTANCE * PX) \div DirUnit,
                        last_seen[2] + (facing[1] * FLANK_DISTANCE * PX) \div DirUnit >>
        right_pos == << last_seen[1] + (facing[2] * FLANK_DISTANCE * PX) \div DirUnit,
                        last_seen[2] - (facing[1] * FLANK_DISTANCE * PX) \div DirUnit >>
        chosen == IF DistSq(sc.entity.pos, left_pos) > DistSq(sc.entity.pos, right_pos)
                  THEN left_pos ELSE right_pos
        other  == IF chosen = right_pos THEN left_pos ELSE right_pos
        valid(pos) == is_position_valid(InPixels(sc.walls), << pos[1] \div PX, pos[2] \div PX >>,
                                        sc.entity.radius \div PX)
    IN  IF valid(chosen) THEN chosen
        ELSE IF valid(other) THEN other
        ELSE sc.entity.pos

\* FlankerAI._is_good_flanking_position: the angle between the player's
\* facing and the direction from the position last seen to the entity lies
\* strictly between 60 and 120 degrees, that is the cosine strictly between
\* -1/2 and 1/2; the direction of a zero vector is (0, 0), at 90 degrees.
is_good_flanking_position(sc, last_seen) ==
    /\ last_seen # << >>
    /\ LET to_ai == << sc.entity.pos[1] - last_seen[1], sc.entity.pos[2] - last_seen[2] >>
           facing == sc.target.look_direction
           dot == facing[1] * to_ai[1] + facing[2] * to_ai[2]
       IN  \/ to_ai = << 0, 0 >>
           \/ 4 * dot * dot < DistSq(<< 0, 0 >>, facing) * DistSq(<< 0, 0 >>, to_ai)

\* What FlankerAI._make_decision leaves in flank_position and
\* path_update_timer: the timer loses a sixtieth of a second, and once it is
\* out and a position was seen the flank position is computed anew and the
\* timer set to two seconds.
FlankerAI_plan(sc) ==
    LET last_seen == LastSeen(sc)
        timer == sc.ai.path_update_timer - 1
    IN  IF timer <= 0 /\ last_seen # << >>
        THEN [flank_position |-> calculate_flank_position(sc, last_seen),
              path_update_timer |-> 2 * 60]
        ELSE [flank_position |-> sc.ai.flank_position, path_update_timer |-> timer]

\* FlankerAI._make_decision
FlankerAI_make_decision(sc) ==
    IF sc.target = NoRef
    THEN AIDecision
    ELSE LET d2 == DistSq(sc.entity.pos, sc.target.pos)
             can_see == AIBehavior_can_see_player(sc)
             last_seen == LastSeen(sc)
             flank_position == FlankerAI_plan(sc).flank_position
             state == IF /\ flank_position # << >>
                         /\ d2 < (FLANKER_ATTACK_RANGE * PX) * (FLANKER_ATTACK_RANGE * PX)
                      THEN IF is_good_flanking_position(sc, last_seen)
                           THEN "ATTACK" ELSE "CHASE"
                      ELSE IF can_see THEN "CHASE"
                      ELSE "PATROL"
             to_flank == << flank_position[1] - sc.entity.pos[1],
                            flank_position[2] - sc.entity.pos[2] >>
         IN  IF state = "CHASE" /\ flank_position # << >>
             THEN [AIDecision EXCEPT
                      !.state = state,
                      !.move_direction = normalize_vector(to_flank),
                      !.look_direction = atan2(to_flank[2], to_flank[1]),
                      !.target_pos = flank_position]
             ELSE IF state = "ATTACK" /\ last_seen # << >>
             THEN [AIDecision EXCEPT
                      !.state = state,
                      !.look_direction = atan2(last_seen[2] - sc.entity.pos[2],
                                               last_seen[1] - sc.entity.pos[1]),
                      !.should_fire = TRUE]
             ELSE [AIDecision EXCEPT !.state = state]

AI_make_decision(sc) ==
    CASE sc.entity.enemy_type = "rusher" -> RusherAI_make_decision(sc)
      [] sc.entity.enemy_type = "sniper" -> SniperAI_make_decision(sc)
      [] OTHER -> FlankerAI_make_decision(sc)

\* What _make_decision itself writes into the AI, given a target or none:
\* the position last seen, and the flanker's plan.
AfterDecision(sc) ==
    IF sc.target = NoRef THEN sc
    ELSE IF sc.entity.enemy_type = "flanker"
    THEN [sc EXCEPT !.ai.last_seen_player_pos = LastSeen(sc),
                    !.ai.flank_position = FlankerAI_plan(sc).flank_position,
                    !.ai.path_update_timer = FlankerAI_plan(sc).path_update_timer]
    ELSE [sc EXCEPT !.ai.last_seen_player_pos = LastSeen(sc)]

\* What one Enemy.update did: whether the AI decided and what, whether
\* fire_weapon was called, whether Weapon.fire returned True, and the
\* look_direction the shot was aimed along.
NoTrace ==
    [decided |-> FALSE, decision |-> AIDecision, fire_weapon |-> FALSE,
     shot |-> FALSE, aim |-> << 1, 0 >>]

\* Enemy.fire_weapon: nothing without a weapon or with an empty (falsy)
\* bullet list; else the weapon is fired from 30 pixels along
\* self.look_direction, along self.look_direction.
Enemy_fire_weapon_aimed(e, bullets) ==
    IF HasAppend(bullets) /\ bullets.items = << >>
    THEN NoFire(e.weapon, bullets)
    ELSE LET along == normalize_vector(e.look_direction)
             fire_pos == << e.pos[1] + (along[1] * 30 * PX) \div DirUnit,
                            e.pos[2] + (along[2] * 30 * PX) \div DirUnit >>
         IN  Weapon_fire(e.weapon, fire_pos, e.look_direction, e.id, bullets)

\* An _execute_decision that fires on the fire intent alone.
execute_decision_without_sight_test(sc, decision) ==
    LET fires == decision.should_fire
        r == IF fires THEN Enemy_fire_weapon_aimed(sc.entity, sc.bullets)
                      ELSE NoFire(sc.entity.weapon, sc.bullets)
    IN  [sc EXCEPT !.ai.state = decision.state,
                   !.trace = [decided |-> TRUE, decision |-> decision,
                              fire_weapon |-> fires, shot |-> r.ret,
                              aim |-> sc.entity.look_direction],
                   !.entity.weapon = r.weapon,
                   !.bullets = r.bullets,
                   !.entity.move_direction =
                       IF decision.move_direction # << 0, 0 >>
                       THEN decision.move_direction ELSE @,
                   !.entity.look_direction = decision.look_direction]

\* AIBehavior._execute_decision: the state is taken over; the weapon is fired
\* on a fire intent with the player in sight; the entity's move_direction is
\* overwritten by a decision whose move_direction is not (0.0, 0.0); its
\* look_direction is overwritten last.
execute_decision(sc, decision) ==
    LET fires == decision.should_fire /\ AIBehavior_can_see_player(sc)
        r == IF fires THEN Enemy_fire_weapon_aimed(sc.entity, sc.bullets)
                      ELSE NoFire(sc.entity.weapon, sc.bullets)
    IN  [sc EXCEPT !.ai.state = decision.state,
                   !.trace = [decided |-> TRUE, decision |-> decision,
                              fire_weapon |-> fires, shot |-> r.ret,
                              aim |-> sc.entity.look_direction],
                   !.entity.weapon = r.weapon,
                   !.bullets = r.bullets,
                   !.entity.move_direction =
                       IF decision.move_direction # << 0, 0 >>
                       THEN decision.move_direction ELSE @,
                   !.entity.look_direction = decision.look_direction]

\* An AIBehavior.update that decides on every call.
AIBehavior_update_every_call(sc, dt, stalled) ==
    LET sc1 == [sc EXCEPT
                   !.ai.decision_cooldown = @ - dt,
                   !.ai.player_velocity_memory =
                       update_player_memory(@, sc.target, stalled)]
        sc2 == AfterDecision(sc1)
    IN  [execute_decision(sc2, AI_make_decision(sc1)) EXCEPT
            !.ai.decision_cooldown = UnitsPerSecond \div AI_UPDATE_RATE]

\* AIBehavior.update(dt, player, all_entities): the cooldown runs, the memory
\* is updated, and once the cooldown is used up a decision is made and
\* executed and the cooldown set to 1 / AI_UPDATE_RATE.
AIBehavior_update(sc, dt, stalled) ==
    LET sc1 == [sc EXCEPT
                   !.ai.decision_cooldown = @ - dt,
                   !.ai.player_velocity_memory =
                       update_player_memory(@, sc.target, stalled)]
        sc2 == AfterDecision(sc1)
    IN  IF sc1.ai.decision_cooldown <= 0
        THEN [execute_decision(sc2, AI_make_decision(sc1)) EXCEPT
                 !.ai.decision_cooldown = UnitsPerSecond \div AI_UPDATE_RATE]
        ELSE sc1

\* The position Enemy._update_movement integrates to.
Integrated(pos, move_direction, speed, dt) ==
    << pos[1] + (move_direction[1] * speed * dt * PX) \div (DirUnit * UnitsPerSecond),
       pos[2] + (move_direction[2] * speed * dt * PX) \div (DirUnit * UnitsPerSecond) >>

\* An _update_movement that resolves the wall collision of the integrated
\* position and clamps afterwards.
Enemy_update_movement_clamping_last(e, walls, dt) ==
    LET new == Integrated(e.pos, e.move_direction, e.speed, dt)
        pushed == IF check_entity_wall_collision(walls, new, e.radius)
                  THEN resolve_entity_wall_collision(walls, new, e.radius)
                  ELSE new
    IN  [pos |-> << clamp(pushed[1], e.radius, SCREEN_WIDTH * PX - e.radius),
                    clamp(pushed[2], e.radius, SCREEN_HEIGHT * PX - e.radius) >>,
         test_pos |-> new]

\* Enemy._update_movement: the position is integrated along move_direction,
\* clamped to the screen, and the clamped position test_pos is pushed out of
\* the walls it collides with.
Enemy_update_movement(e, walls, dt) ==
    LET new == Integrated(e.pos, e.move_direction, e.speed, dt)
        test_pos == << clamp(new[1], e.radius, SCREEN_WIDTH * PX - e.radius),
                       clamp(new[2], e.radius, SCREEN_HEIGHT * PX - e.radius) >>
    IN  [pos |-> IF check_entity_wall_collision(walls, test_pos, e.radius)
                 THEN resolve_entity_wall_collision(walls, test_pos, e.radius)
                 ELSE test_pos,
         test_pos |-> test_pos]

\* Enemy.update(dt, player, all_entities, current_time) on the scene's
\* entity: nothing for a dead enemy; else the spawn invincibility, the AI,
\* the movement and the weapon's timers.
Enemy_update_full(sc, dt, stalled) ==
    IF ~sc.entity.alive
    THEN [sc EXCEPT !.trace = NoTrace]
    ELSE LET sc1 == [sc EXCEPT !.entity = Enemy_update_invincibility(@, dt),
                               !.trace = NoTrace]
             sc2 == AIBehavior_update(sc1, dt, stalled)
             moved == Enemy_update_movement(sc2.entity, sc2.walls, dt)
         IN  [sc2 EXCEPT !.entity.pos = moved.pos,
                         !.entity.weapon = Weapon_update(@, dt)]

---------------------------------------------------------------------------
(* The AI specification: Enemy.update called again and again on one rusher *)
(* or sniper with a player that stands at the screen centre, still or      *)
(* running along y, in the open or behind a wall.  The player may turn     *)
(* round, and the reference handed to update may become None.              *)

MaxUpdates == 8     \* Enemy.update calls per behaviour

AIFrameTimes == { Tick, 3 * Tick }

\* The enemy's type and its distance from the player, in pixels: a sniper
\* just outside its band, on its far and on its near end and inside its
\* retreat range; a rusher inside its attack range and outside it.
AIStarts ==
    { << "sniper", 460 >>, << "sniper", 450 >>, << "sniper", 350 >>, << "sniper", 290 >>,
      << "rusher", 150 >>, << "rusher", 300 >> }

\* A wall of generate_arena between the player and the enemies 300 pixels
\* or more away from it.
AIWalls == { << >>, << Rect(380 * PX, 344 * PX, 2 * TILE_SIZE * PX, TILE_SIZE * PX) >> }

\* The list handed to set_bullet_list: empty, or holding a shot of the player.
AIBulletLists ==
    { ListArg(<< >>),
      ListArg(<< NewBullet(<< 900 * PX, 100 * PX >>, << PISTOL_BULLET_SPEED, 0 >>,
                           PISTOL_DAMAGE, "player") >>) }

InitAI ==
    /\ WeaponIdle
    /\ GameIdle
    /\ flight = << >>
    /\ spatial_grid = {}
    /\ result = NoCall
    /\ \E start \in AIStarts, walls \in AIWalls, bullets \in AIBulletLists,
          vy \in { 0, PLAYER_SPEED } :
          scene = [entity |-> ArmedEnemy(start[1],
                                         << (SCREEN_WIDTH \div 2 - start[2]) * PX,
                                            (SCREEN_HEIGHT \div 2) * PX >>,
                                         "enemy_1000", 1),
                   ai |-> NewAI,
                   target |-> [id |-> "player",
                               pos |-> << (SCREEN_WIDTH \div 2) * PX,
                                          (SCREEN_HEIGHT \div 2) * PX >>,
                               velocity |-> << 0, vy >>],
                   turned |-> FALSE,
                   walls |-> walls,
                   bullets |-> bullets,
                   trace |-> NoTrace]

\* EnemySpawner.update's call enemy.update(dt, player, self.enemies,
\* current_time).  result.cycle tells two calls apart.
AIUpdate ==
    /\ pc.frames < MaxUpdates
    /\ \E dt \in AIFrameTimes, stalled \in BOOLEAN :
          /\ scene' = Enemy_update_full(scene, dt, stalled)
          /\ result' = [name |-> "Enemy.update", dt |-> dt,
                        cycle |-> IF result = NoCall THEN 0 ELSE 1 - result.cycle]
    /\ pc' = [pc EXCEPT !.frames = @ + 1]
    /\ UNCHANGED <<weaponVars, player, enemies, spawner, manager, game, kills, hits,
                   flight, spatial_grid>>

\* The player reverses its run.
TargetTurns ==
    /\ ~scene.turned
    /\ scene.target # NoRef
    /\ scene.target.velocity # << 0, 0 >>
    /\ scene' = [scene EXCEPT !.turned = TRUE,
                              !.target.velocity = << -@[1], -@[2] >>]
    /\ UNCHANGED <<weaponVars, gameVars, flight, spatial_grid, result>>

\* From now on update is handed None for the player.
TargetLost ==
    /\ scene.target # NoRef
    /\ scene' = [scene EXCEPT !.target = NoRef]
    /\ UNCHANGED <<weaponVars, gameVars, flight, spatial_grid, result>>

NextAI == AIUpdate \/ TargetTurns \/ TargetLost

SpecAI == InitAI /\ [][NextAI]_vars

\* The distance between the entity and the target handed to update lies in
\* the sniper's band, both ends included.
InSniperBand ==
    LET d2 == DistSq(scene.entity.pos, scene.target.pos)
    IN  /\ d2 >= ((SNIPER_PREFERRED_RANGE - 50) * PX) * ((SNIPER_PREFERRED_RANGE - 50) * PX)
        /\ d2 <= ((SNIPER_PREFERRED_RANGE + 50) * PX) * ((SNIPER_PREFERRED_RANGE + 50) * PX)

\* C21: on every decision cycle of a sniper that perceives its target at a
\* distance d with preferred_range - 50 <= d <= preferred_range + 50, both
\* ends included, the decision is ATTACK with a fire intent; its aim is the
\* direction to the lead-predicted position, the target's position plus half
\* a second of the average of the remembered velocities, and that position
\* is not the target's position whenever the target's velocity is nonzero.
C21_SniperAttacksInBand ==
    [][ (/\ result' # result
         /\ scene'.trace.decided
         /\ scene.entity.enemy_type = "sniper"
         /\ AIBehavior_can_see_player(scene)
         /\ InSniperBand)
            => LET memory == scene'.ai.player_velocity_memory
                   lead == SumVelocity(memory)
                   den == 2 * Len(memory)
               IN  /\ scene'.trace.decision.state = "ATTACK"
                   /\ scene'.trace.decision.should_fire
                   /\ scene'.trace.decision.look_direction
                          = atan2(den * (scene.target.pos[2] - scene.entity.pos[2])
                                      + lead[2] * PX,
                                  den * (scene.target.pos[1] - scene.entity.pos[1])
                                      + lead[1] * PX)
                   /\ scene.target.velocity # << 0, 0 >> => lead # << 0, 0 >>
      ]_vars

\* The same with the two ends of the band left out and without the clause
\* on the predicted position: what the sniper does strictly inside the band.
SniperAttacksInsideBand ==
    [][ (/\ result' # result
         /\ scene'.trace.decided
         /\ scene.entity.enemy_type = "sniper"
         /\ AIBehavior_can_see_player(scene)
         /\ InSniperBand
         /\ DistSq(scene.entity.pos, scene.target.pos)
                \notin { ((SNIPER_PREFERRED_RANGE - 50) * PX) * ((SNIPER_PREFERRED_RANGE - 50) * PX),
                         ((SNIPER_PREFERRED_RANGE + 50) * PX) * ((SNIPER_PREFERRED_RANGE + 50) * PX) })
            => LET memory == scene'.ai.player_velocity_memory
                   lead == SumVelocity(memory)
                   den == 2 * Len(memory)
               IN  /\ scene'.trace.decision.state = "ATTACK"
                   /\ scene'.trace.decision.should_fire
                   /\ scene'.trace.decision.look_direction
                          = atan2(den * (scene.target.pos[2] - scene.entity.pos[2])
                                      + lead[2] * PX,
                                  den * (scene.target.pos[1] - scene.entity.pos[1])
                                      + lead[1] * PX)
      ]_vars

\* C22: on every Enemy.update of a sniper after whose AI step the AI state
\* is ATTACK, the sniper's movement intent is zero and the update leaves its
\* position where it was, also when the decision before was to move.
C22_AttackingSniperStandsStill ==
    [][ (/\ result' # result
         /\ scene.entity.enemy_type = "sniper"
         /\ scene.entity.alive
         /\ scene'.ai.state = "ATTACK")
            => /\ scene'.entity.move_direction = << 0, 0 >>
               /\ scene'.entity.pos = scene.entity.pos
      ]_vars

\* C23: on every decision cycle on which update is handed no target the
\* decision is PATROL with no fire intent, fire_weapon is not called, and
\* the entity's movement intent is zero from that decision on, also when it
\* was moving before: the update leaves its position where it was.
C23_NoTargetPatrolsAndStops ==
    [][ (/\ result' # result
         /\ scene.target = NoRef
         /\ scene'.trace.decided)
            => /\ scene'.ai.state = "PATROL"
               /\ ~scene'.trace.decision.should_fire
               /\ ~scene'.trace.fire_weapon
               /\ scene'.entity.move_direction = << 0, 0 >>
               /\ scene'.entity.pos = scene.entity.pos
      ]_vars

\* The part of C23 that is about the decision alone.
NoTargetPatrols ==
    [][ (/\ result' # result
         /\ scene.target = NoRef
         /\ scene'.trace.decided)
            => /\ scene'.ai.state = "PATROL"
               /\ scene'.trace.decision = AIDecision
               /\ ~scene'.trace.fire_weapon
               /\ scene'.bullets = scene.bullets
      ]_vars

SecondDecision ==
    /\ result # NoCall
    /\ scene.trace.decided
    /\ pc.frames > 1

---------------------------------------------------------------------------
(* The movement specification: Enemy._update_movement and                  *)
(* Player._update_movement on one combatant, started beside the screen's   *)
(* borders, beside a wall and in the open.  Velocities are held in 1/PX    *)
(* pixels per second.                                                      *)

MaxMoves == 3       \* _update_movement calls per behaviour

PLAYER_ACCELERATION == 2000
DASH_SPEED_MULTIPLIER == 10

\* Player._update_movement while dashing: integration and clamp, no walls.
\* Otherwise acceleration along move_direction, friction 0.85, the speed
\* capped at self.speed, integration, clamp, and the clamped position
\* test_pos pushed out of the walls it collides with, which halves the
\* velocity.  `used` is the velocity integrated.
Player_update_movement(p, walls, dt) ==
    LET accelerated ==
            << p.velocity[1] + (p.move_direction[1] * PLAYER_ACCELERATION * dt * PX)
                                   \div (DirUnit * UnitsPerSecond),
               p.velocity[2] + (p.move_direction[2] * PLAYER_ACCELERATION * dt * PX)
                                   \div (DirUnit * UnitsPerSecond) >>
        slowed == << (accelerated[1] * 85) \div 100, (accelerated[2] * 85) \div 100 >>
        current_speed == Sqrt(slowed[1] * slowed[1] + slowed[2] * slowed[2])
        capped == IF current_speed > p.speed * PX
                  THEN << (slowed[1] * p.speed * PX) \div current_speed,
                          (slowed[2] * p.speed * PX) \div current_speed >>
                  ELSE slowed
        used == IF p.is_dashing THEN p.velocity ELSE capped
        test_pos == << clamp(p.pos[1] + (used[1] * dt) \div UnitsPerSecond,
                             p.radius, SCREEN_WIDTH * PX - p.radius),
                       clamp(p.pos[2] + (used[2] * dt) \div UnitsPerSecond,
                             p.radius, SCREEN_HEIGHT * PX - p.radius) >>
        collides == ~p.is_dashing /\ check_entity_wall_collision(walls, test_pos, p.radius)
    IN  [pos |-> IF collides
                 THEN resolve_entity_wall_collision(walls, test_pos, p.radius)
                 ELSE test_pos,
         velocity |-> IF collides THEN << used[1] \div 2, used[2] \div 2 >> ELSE used,
         used |-> used,
         test_pos |-> test_pos]

\* Where a combatant starts, in pixels: the open field, beside the left
\* border, in the top left and the bottom right corner, and beside the
\* left and under the bottom side of the wall.
MoveStarts ==
    { << 640, 360 >>, << 13, 360 >>, << 13, 14 >>, << 1266, 707 >>,
      << 366, 352 >>, << 400, 390 >> }

\* Unit vectors along the axes and the diagonals, and none.
MoveDirections ==
    { << 0, 0 >>, << DirUnit, 0 >>, << -DirUnit, 0 >>, << 0, DirUnit >>, << 0, -DirUnit >>,
      normalize_vector(<< 1, 1 >>), normalize_vector(<< -1, -1 >>) }

\* The combatants: a rusher, a sniper, a boss rusher (make_boss: one and a
\* half times the radius, 0.8 times the speed), and the player, walking at
\* full speed, standing, or dashing at DASH_SPEED_MULTIPLIER times its speed.
Movers(pos, direction) ==
    { [kind |-> "enemy", pos |-> pos, radius |-> (PLAYER_SIZE \div 2) * PX,
       speed |-> RUSHER_SPEED, move_direction |-> direction,
       velocity |-> << 0, 0 >>, is_dashing |-> FALSE],
      [kind |-> "enemy", pos |-> pos, radius |-> (PLAYER_SIZE \div 2) * PX,
       speed |-> SNIPER_SPEED, move_direction |-> direction,
       velocity |-> << 0, 0 >>, is_dashing |-> FALSE],
      [kind |-> "enemy", pos |-> pos,
       radius |-> (((PLAYER_SIZE \div 2) * BOSS_SIZE_MULTIPLIER_NUM)
                       \div BOSS_SIZE_MULTIPLIER_DEN) * PX,
       speed |-> (RUSHER_SPEED * 4) \div 5, move_direction |-> direction,
       velocity |-> << 0, 0 >>, is_dashing |-> FALSE],
      [kind |-> "player", pos |-> pos, radius |-> (PLAYER_SIZE \div 2) * PX,
       speed |-> PLAYER_SPEED, move_direction |-> direction,
       velocity |-> << (direction[1] * PLAYER_SPEED * PX) \div DirUnit,
                       (direction[2] * PLAYER_SPEED * PX) \div DirUnit >>,
       is_dashing |-> FALSE],
      [kind |-> "player", pos |-> pos, radius |-> (PLAYER_SIZE \div 2) * PX,
       speed |-> PLAYER_SPEED, move_direction |-> direction,
       velocity |-> << 0, 0 >>, is_dashing |-> FALSE],
      [kind |-> "player", pos |-> pos, radius |-> (PLAYER_SIZE \div 2) * PX,
       speed |-> PLAYER_SPEED, move_direction |-> direction,
       velocity |-> << (direction[1] * PLAYER_SPEED * DASH_SPEED_MULTIPLIER * PX) \div DirUnit,
                       (direction[2] * PLAYER_SPEED * DASH_SPEED_MULTIPLIER * PX) \div DirUnit >>,
       is_dashing |-> direction # << 0, 0 >>] }

InitMove ==
    /\ WeaponIdle
    /\ GameIdle
    /\ flight = << >>
    /\ spatial_grid = {}
    /\ result = NoCall
    /\ \E walls \in AIWalls, start \in MoveStarts, direction \in MoveDirections :
          \E mover \in Movers(<< start[1] * PX, start[2] * PX >>, direction) :
              scene = [walls |-> walls, mover |-> mover]

\* Enemy._update_movement(dt), from Enemy.update
EnemyMove ==
    /\ pc.frames < MaxMoves
    /\ scene.mover.kind = "enemy"
    /\ \E dt \in AIFrameTimes :
          LET r == Enemy_update_movement(scene.mover, scene.walls, dt)
          IN  /\ scene' = [scene EXCEPT !.mover.pos = r.pos]
              /\ result' = [name |-> "Enemy._update_movement", dt |-> dt,
                            test_pos |-> r.test_pos, frame |-> pc.frames]
    /\ pc' = [pc EXCEPT !.frames = @ + 1]
    /\ UNCHANGED <<weaponVars, player, enemies, spawner, manager, game, kills, hits,
                   flight, spatial_grid>>

\* Player._update_movement(dt), from Player.update
PlayerMove ==
    /\ pc.frames < MaxMoves
    /\ scene.mover.kind = "player"
    /\ \E dt \in AIFrameTimes :
          LET r == Player_update_movement(scene.mover, scene.walls, dt)
          IN  /\ scene' = [scene EXCEPT !.mover.pos = r.pos, !.mover.velocity = r.velocity]
              /\ result' = [name |-> "Player._update_movement", dt |-> dt,
                            test_pos |-> r.test_pos, used |-> r.used, frame |-> pc.frames]
    /\ pc' = [pc EXCEPT !.frames = @ + 1]
    /\ UNCHANGED <<weaponVars, player, enemies, spawner, manager, game, kills, hits,
                   flight, spatial_grid>>

NextMove == EnemyMove \/ PlayerMove

SpecMove == InitMove /\ [][NextMove]_vars

\* The velocity _update_movement integrates: move_direction times speed for
\* an enemy, the player's velocity after acceleration, friction and cap.
MoveVelocity ==
    IF scene.mover.kind = "enemy"
    THEN << (scene.mover.move_direction[1] * scene.mover.speed * PX) \div DirUnit,
            (scene.mover.move_direction[2] * scene.mover.speed * PX) \div DirUnit >>
    ELSE result'.used

\* C25: in every _update_movement of the player and of an enemy the position
\* handed to the wall-collision test and resolution is the integrated
\* position clamped to [radius, SCREEN_WIDTH - radius] x [radius,
\* SCREEN_HEIGHT - radius], and the position the call leaves is that clamped
\* position, pushed out of the walls if it collides with one (never for a
\* dashing player).
C25_ClampedBeforeWalls ==
    [][ result' # result
            => LET mover == scene.mover
                   test_pos == result'.test_pos
                   collides == /\ ~mover.is_dashing
                               /\ check_entity_wall_collision(scene.walls, test_pos,
                                                              mover.radius)
               IN  /\ test_pos[1] >= mover.radius
                   /\ test_pos[1] <= SCREEN_WIDTH * PX - mover.radius
                   /\ test_pos[2] >= mover.radius
                   /\ test_pos[2] <= SCREEN_HEIGHT * PX - mover.radius
                   /\ \A i \in 1..2 :
                         LET moved == mover.pos[i]
                                          + (MoveVelocity[i] * result'.dt) \div UnitsPerSecond
                             limit == IF i = 1 THEN SCREEN_WIDTH * PX - mover.radius
                                               ELSE SCREEN_HEIGHT * PX - mover.radius
                         IN  test_pos[i] = IF moved < mover.radius THEN mover.radius
                                           ELSE IF moved > limit THEN limit
                                           ELSE moved
                   /\ scene'.mover.pos
                          = IF collides
                            THEN resolve_entity_wall_collision(scene.walls, test_pos,
                                                               mover.radius)
                            ELSE test_pos
      ]_vars

\* A combatant stopped at the left border by the clamp.
C25_Witness ==
    /\ result # NoCall
    /\ result.test_pos[1] = scene.mover.radius
    /\ scene.mover.move_direction[1] < 0
    /\ scene.mover.pos = result.test_pos

\* A combatant pushed out of the wall it walked into.
PushedOutOfWall ==
    /\ result # NoCall
    /\ scene.mover.pos # result.test_pos

---------------------------------------------------------------------------
(* The spawn shield specification: EnemySpawner.update spawns a rusher and *)
(* a sniper, the first of them as a boss or not, and updates them with     *)
(* frames of a quarter of a second and more, while take_damage is called   *)
(* on them at any time.  The player is out of every detection range: no AI *)
(* decides to fire.  scene.elapsed holds, per enemy, the dt its update     *)
(* calls were handed.                                                      *)

ShieldTimes == { UnitsPerSecond \div 4, UnitsPerSecond \div 2, UnitsPerSecond + Tick }

InitShield ==
    /\ WeaponIdle
    /\ player = NewPlayer(<<SCREEN_WIDTH \div 2, SCREEN_HEIGHT \div 2>>)
    /\ enemies = << >>
    /\ \E boss_pending \in BOOLEAN :
          spawner = [spawn_queue |-> [EmptyQueue EXCEPT !["rusher"] = 1, !["sniper"] = 1],
                     boss_pending |-> boss_pending, spawn_timer |-> 0, spawned |-> 0]
    /\ manager = [bullets |-> << >>, bullet_count |-> 0]
    /\ game = [wave_number |-> 1, wave_break_timer |-> 0, current_time |-> 0,
               total_kills |-> 0, walls |-> << >>]
    /\ pc = Phase("idle", 0, 0, 0)
    /\ kills = << >>
    /\ hits = << >>
    /\ flight = << >>
    /\ spatial_grid = {}
    /\ result = NoCall
    /\ scene = [elapsed |-> [slot \in 1..2 |-> 0]]

\* The random draws of one EnemySpawner.update call: the type of the next
\* enemy and the delay of the one after; positions and ids do not matter
\* here.
ShieldDraws(sp) ==
    { [enemy_type |-> t, pos |-> << 100 * (sp.spawned + 1), 100 >>,
       id |-> IF sp.spawned = 0 THEN "enemy_1000" ELSE "enemy_2000",
       boss_id |-> "BOSS_1000", delay |-> delay] :
        t \in IF Spawning(sp) THEN { u \in EnemyTypes : sp.spawn_queue[u] > 0 }
                               ELSE { "rusher" },
        delay \in IF Spawning(sp) THEN { 0, UnitsPerSecond \div 2 } ELSE { 0 } }

\* EnemySpawner.update(dt, ...): spawning, then every enemy's update.
\* result.entered holds the enemy as it was appended to self.enemies.
ShieldUpdate ==
    /\ pc.frames < MaxUpdates \div 2
    /\ \E dt \in ShieldTimes, d \in ShieldDraws(spawner) :
          LET s == SpawnNext(spawner, enemies, dt, d.enemy_type, d.pos, d.id,
                             d.boss_id, d.delay)
              r == UpdateEnemies(s.enemies, 1, dt, [i \in 1..Len(s.enemies) |-> FALSE],
                                 [enemies |-> << >>, bullets |-> ManagerArg(manager.bullets),
                                  raised |-> FALSE])
          IN  /\ spawner' = s.spawner
              /\ enemies' = r.enemies
              /\ scene' = [scene EXCEPT !.elapsed =
                              [slot \in 1..2 |->
                                  IF \E i \in 1..Len(s.enemies) :
                                        s.enemies[i].slot = slot /\ s.enemies[i].alive
                                  THEN scene.elapsed[slot] + dt
                                  ELSE scene.elapsed[slot]]]
              /\ result' = [name |-> "EnemySpawner.update", dt |-> dt,
                            entered |-> IF Len(s.enemies) > Len(enemies)
                                        THEN << s.enemies[Len(s.enemies)] >> ELSE << >>]
    /\ pc' = [pc EXCEPT !.frames = @ + 1]
    /\ UNCHANGED <<weaponVars, player, manager, game, kills, hits, flight, spatial_grid>>

\* Enemy.take_damage(amount, attacker_id) on an enemy of the list
ShieldHit ==
    /\ \E i \in 1..Len(enemies), amount \in { RIFLE_DAMAGE } :
          LET r == Enemy_take_damage(enemies[i], amount, "player")
          IN  /\ enemies' = [enemies EXCEPT ![i] = r.enemy]
              /\ kills' = kills \o r.killed
              /\ result' = [name |-> "Enemy.take_damage", slot |-> enemies[i].slot,
                            amount |-> amount]
    /\ UNCHANGED <<weaponVars, player, spawner, manager, game, pc, hits,
                   flight, scene, spatial_grid>>

NextShield == ShieldUpdate \/ ShieldHit

SpecShield == InitShield /\ [][NextShield]_vars

\* C26: every enemy, a boss after make_boss included, is appended to the
\* active set with health = max_health and invincible, and no take_damage
\* lowers an enemy's health before its update calls have been handed
\* ENEMY_SPAWN_INVINCIBILITY seconds in total.
C26_SpawnShield ==
    [][ /\ (result' # result /\ result'.name = "EnemySpawner.update")
            => \A k \in 1..Len(result'.entered) :
                   LET e == result'.entered[k]
                   IN  /\ e.health = e.max_health
                       /\ e.health > 0
                       /\ e.invincible
                       /\ e.alive
        /\ \A i \in 1..Len(enemies), j \in 1..Len(enemies') :
               (enemies[i].slot = enemies'[j].slot /\ enemies'[j].health < enemies[i].health)
                   => scene.elapsed[enemies[i].slot] >= ENEMY_SPAWN_INVINCIBILITY
      ]_vars

\* A boss that outlived its shield and has been hurt since.
C26_Witness ==
    \E i \in 1..Len(enemies) :
        /\ enemies[i].health < enemies[i].max_health
        /\ enemies[i].max_health = ENEMY_BASE_HEALTH * BOSS_HEALTH_MULTIPLIER * HP
        /\ scene.elapsed[enemies[i].slot] = ENEMY_SPAWN_INVINCIBILITY
        /\ result.name = "Enemy.take_damage"

\* A take_damage call that met the shield.
ShieldHeld ==
    /\ result.name = "Enemy.take_damage"
    /\ \E i \in 1..Len(enemies) :
          /\ enemies[i].slot = result.slot
          /\ enemies[i].invincible
          /\ enemies[i].health = enemies[i].max_health

---------------------------------------------------------------------------
(* The contact specification: frames of Game.run in the middle of a wave   *)
(* with no bullet in flight and two rushers about the player, one of them  *)
(* possibly inside its spawn invincibility.  Where the rushers stand when  *)
(* the collision pass comes is left open: on the player or away from it.   *)
(* A frame may take longer than the cap on dt, so Game.current_time, the   *)
(* clock, runs ahead of the time the updates are handed.  scene.applied    *)
(* holds the clock readings of the passes in which the player's            *)
(* damage_taken rose, scene.damage_seen the damage_taken of the frame's    *)
(* start.                                                                  *)

MaxPasses == 6      \* collision passes per behaviour

ContactTimes == { MAX_FRAME_DT, 4 * MAX_FRAME_DT }

\* Offsets of the two rushers from the player: both on it, the first only,
\* none.
ContactOffsets ==
    { << << 10, 0 >>, << 0, 10 >> >>, << << 10, 0 >>, << 0, 100 >> >>,
      << << 100, 0 >>, << 0, 100 >> >> }

InitContact ==
    /\ WeaponIdle
    /\ player = NewPlayer(<<SCREEN_WIDTH \div 2, Lane>>)
    /\ \E timer \in { 0, 3 * MAX_FRAME_DT } :
          enemies = << Seasoned(NewEnemy("rusher", <<SCREEN_WIDTH \div 2 + 100, Lane>>,
                                         "enemy_1000", 1)),
                       [NewEnemy("rusher", <<SCREEN_WIDTH \div 2, Lane + 100>>,
                                 "enemy_2000", 2)
                            EXCEPT !.invincibility_timer = timer,
                                   !.invincible = timer > 0] >>
    /\ spawner = [spawn_queue |-> EmptyQueue, boss_pending |-> FALSE,
                  spawn_timer |-> 0, spawned |-> 2]
    /\ manager = [bullets |-> << >>, bullet_count |-> 0]
    /\ game = [wave_number |-> 1, wave_break_timer |-> 0, current_time |-> CombatTime,
               total_kills |-> 0, walls |-> << >>]
    /\ pc = Phase("events", 0, 0, 0)
    /\ kills = << >>
    /\ hits = << >>
    /\ flight = << >>
    /\ spatial_grid = {}
    /\ result = NoCall
    /\ scene = [applied |-> << >>, damage_seen |-> 0]

\* Game.run up to the collision pass: the clock is read and dt capped, the
\* player and the enemies are updated, and the enemies have moved.
ContactFrame ==
    /\ pc.at = "events" /\ pc.frames < MaxPasses
    /\ \E elapsed \in ContactTimes, offsets \in ContactOffsets :
          LET dt == Min(elapsed, MAX_FRAME_DT)
              r  == Player_update(player, dt, ManagerArg(manager.bullets))
              u  == UpdateEnemies(enemies, 1, dt, [i \in 1..Len(enemies) |-> FALSE],
                                  [enemies |-> << >>, bullets |-> r.bullets,
                                   raised |-> FALSE])
          IN  /\ player' = r.player
              /\ enemies' = [i \in 1..Len(u.enemies) |->
                                [u.enemies[i] EXCEPT
                                    !.pos = << r.player.pos[1] + offsets[i][1],
                                               r.player.pos[2] + offsets[i][2] >>]]
              /\ game' = [game EXCEPT !.current_time = game.current_time + elapsed]
              /\ pc' = [pc EXCEPT !.dt = dt, !.at = "collide", !.bullet = 1]
    /\ scene' = [applied |-> IF player.damage_taken > scene.damage_seen
                             THEN Append(scene.applied, game.current_time)
                             ELSE scene.applied,
                 damage_seen |-> player.damage_taken]
    /\ UNCHANGED <<weaponVars, spawner, manager, kills, hits, flight, spatial_grid, result>>

NextContact == ContactFrame \/ EntityCollisions

SpecContact == InitContact /\ [][NextContact]_vars

\* C27: any two passes that apply contact damage to the player lie at least
\* ENEMY_CONTACT_COOLDOWN seconds of the game's clock apart, and one pass
\* applies contact damage at most once, however many enemies overlap the
\* player.
C27_ContactCooldown ==
    /\ \A i \in 1..Len(scene.applied) - 1 :
           scene.applied[i + 1] - scene.applied[i] >= ENEMY_CONTACT_COOLDOWN
    /\ player.damage_taken - scene.damage_seen \in { 0, ENEMY_CONTACT_DAMAGE }
    /\ (player.damage_taken > scene.damage_seen /\ scene.applied # << >>)
           => game.current_time - scene.applied[Len(scene.applied)]
                  >= ENEMY_CONTACT_COOLDOWN

\* Contact damage applied a second time, in a pass with both rushers on the
\* player, while the frames between handed the updates less than the cooldown.
C27_Witness ==
    /\ Len(scene.applied) = 1
    /\ player.damage_taken > scene.damage_seen
    /\ pc.at = "events"
    /\ pc.frames * MAX_FRAME_DT < ENEMY_CONTACT_COOLDOWN
    /\ \A i \in 1..2 : ~enemies[i].invincible
    /\ \A i \in 1..2 : DistSq(player.pos, enemies[i].pos) < 50 * 50


---------------------------------------------------------------------------
(* The game at close quarters: the frame loop of Spec, started with the     *)
(* player in contact with a rusher next to a wall.                         *)

\* A wall of eight tiles by one whose left edge is 16 pixels from the
\* rusher's centre.
CloseWalls == << Rect(716, 344, 8 * TILE_SIZE, TILE_SIZE) >>

\* Wave 1 with its queue spawned out.  A rusher in contact with the player,
\* unhurt or left with 5 health by a Rifle hit, alone or listed after a
\* second rusher that stands clear of the lane.
InitClose ==
    /\ WeaponIdle
    /\ player = NewPlayer(<<684, Lane>>)
    /\ manager = [bullets |-> << >>, bullet_count |-> 0]
    /\ pc = Phase("events", 0, 0, 0)
    /\ kills = << >>
    /\ hits = << >>
    /\ AuxIdle
    /\ \E health \in {ENEMY_BASE_HEALTH, ENEMY_BASE_HEALTH - RIFLE_DAMAGE},
          others \in { << >>, << Seasoned(NewEnemy("rusher", <<700, 300>>, "enemy_2000", 1)) >> } :
          enemies = others \o << [Seasoned(NewEnemy("rusher", <<700, Lane>>, "enemy_1000", 2))
                                      EXCEPT !.health = health * HP] >>
    /\ spawner = [spawn_queue |-> EmptyQueue, boss_pending |-> FALSE,
                  spawn_timer |-> 0, spawned |-> 2]
    /\ game = [wave_number |-> 1, wave_break_timer |-> 0, current_time |-> CombatTime,
               total_kills |-> 1, walls |-> CloseWalls]

SpecClose == InitClose /\ [][Next]_vars

InWall(b) == \E i \in 1..Len(game.walls) : circle_rect_collision(b.pos, BULLET_SIZE, game.walls[i])

\* C30: a live bullet that overlaps a wall when the bullet loop reaches it is
\* marked dead by that round, which calls no take_damage and leaves every
\* combatant as it was, whether or not the bullet overlaps a combatant; and
\* no later round calls take_damage for a bullet that is dead.
C30_WallStopsBullet ==
    [][ /\ (pc.at = "collide" /\ pc.bullet <= Len(manager.bullets))
              => LET b == manager.bullets[pc.bullet]
                 IN  (b.alive /\ InWall(b))
                        => /\ ~manager'.bullets[pc.bullet].alive
                           /\ hits' = hits
                           /\ player' = player
                           /\ enemies' = enemies
        /\ \A i \in 1..Len(manager.bullets) :
              (~manager.bullets[i].alive /\ InWall(manager.bullets[i]))
                 => \A k \in (Len(hits) + 1)..Len(hits') :
                       hits'[k].bullet # manager.bullets[i].uid
      ]_vars

\* The bullet loop has passed a bullet that lies in the wall and on a living
\* enemy it does not own: the bullet is dead and no hit of it is recorded.
C30_Witness ==
    /\ pc.at = "collide"
    /\ \E i \in 1..Len(manager.bullets) :
          LET b == manager.bullets[i]
          IN  /\ i < pc.bullet
              /\ ~b.alive
              /\ InWall(b)
              /\ \E ref \in Overlapped(b) : CanHit(b, player, enemies, ref)
              /\ \A k \in 1..Len(hits) : hits[k].bullet # b.uid

Listed(es, slot) == \E j \in 1..Len(es) : es[j].slot = slot

\* C28: an enemy whose alive flag is false is left as it is but for being
\* pushed by another enemy; the next EnemySpawner.update adds no bullet and
\* takes it off the list; the contact loop damages the player only if some
\* listed enemy is alive; and is_wave_complete holds only with no dead enemy
\* listed and the spawn queue empty.
C28_DeadEnemyInertAndRemoved ==
    [][ /\ \A i \in 1..Len(enemies) :
              ~enemies[i].alive =>
                 /\ \A j \in 1..Len(enemies') :
                       enemies'[j].slot = enemies[i].slot
                           => enemies'[j] = [enemies[i] EXCEPT !.pos = enemies'[j].pos]
                 /\ pc.at = "spawner" => manager'.bullets = manager.bullets
                 /\ pc.at = "spawner" => ~Listed(enemies', enemies[i].slot)
        /\ (pc.at = "collide" /\ pc.bullet > Len(manager.bullets)
                /\ player'.last_contact_damage_time # player.last_contact_damage_time)
              => \E i \in 1..Len(enemies) : enemies[i].alive
        /\ is_wave_complete(spawner', enemies')
              => /\ \A j \in 1..Len(enemies') : enemies'[j].alive
                 /\ QueueLen(spawner'.spawn_queue) = 0
      ]_vars

\* The same with the removal asked only of an EnemySpawner.update that
\* returns.
DeadEnemyInert ==
    [][ /\ \A i \in 1..Len(enemies) :
              ~enemies[i].alive =>
                 /\ \A j \in 1..Len(enemies') :
                       enemies'[j].slot = enemies[i].slot
                           => enemies'[j] = [enemies[i] EXCEPT !.pos = enemies'[j].pos]
                 /\ pc.at = "spawner" => manager'.bullets = manager.bullets
                 /\ (pc.at = "spawner" /\ pc'.at = "bullets")
                       => ~Listed(enemies', enemies[i].slot)
        /\ (pc.at = "collide" /\ pc.bullet > Len(manager.bullets)
                /\ player'.last_contact_damage_time # player.last_contact_damage_time)
              => \E i \in 1..Len(enemies) : enemies[i].alive
        /\ is_wave_complete(spawner', enemies')
              => /\ \A j \in 1..Len(enemies') : enemies'[j].alive
                 /\ QueueLen(spawner'.spawn_queue) = 0
      ]_vars

\* A dead enemy still listed after the EnemySpawner.update that followed its
\* death; and in another state the wave complete after a dead enemy's removal.
DeadStillListed ==
    /\ pc.at = "fault"
    /\ \E i \in 1..Len(enemies) : ~enemies[i].alive

DeadRemoved ==
    /\ is_wave_complete(spawner, enemies)
    /\ Len(kills) > 0


\* C29: the player and the listed enemies, bosses included, carry pairwise
\* different ids.
C29_UniqueIds ==
    /\ \A i \in 1..Len(enemies) : enemies[i].id # player.id
    /\ \A i, j \in 1..Len(enemies) : i # j => enemies[i].id # enemies[j].id


---------------------------------------------------------------------------
(* Properties of the wall push, under SpecResolve *)

\* The point of the wall closest to pos, and the wall's centroid.
ClosestPoint(wall, pos) ==
    << Max(wall.left, Min(pos[1], wall.right)), Max(wall.top, Min(pos[2], wall.bottom)) >>
Centroid(wall) == << (wall.left + wall.right) \div 2, (wall.top + wall.bottom) \div 2 >>

\* Wall i is the only wall of the call that the circle collides with.
OnlyWall(i) ==
    /\ result.name = "resolve_entity_wall_collision"
    /\ i \in 1..Len(result.walls)
    /\ \A j \in 1..Len(result.walls) :
          circle_rect_collision(result.pos, result.radius, result.walls[j]) <=> j = i

\* C31: when the circle's centre is its own closest point of the wall (the
\* centre lies in or on the wall), the position returned is strictly farther
\* from the wall's centroid than the position given.
C31_DegeneratePushedFromCentroid ==
    \A i \in 1..3 :
        (OnlyWall(i) /\ ClosestPoint(result.walls[i], result.pos) = result.pos)
            => DistSq(result.value, Centroid(result.walls[i]))
                   > DistSq(result.pos, Centroid(result.walls[i]))

\* The same for the centres that lie within radius + COLLISION_EPSILON of
\* the centroid but not on it.
DegenerateWithinReach ==
    \A i \in 1..3 :
        (/\ OnlyWall(i) /\ ClosestPoint(result.walls[i], result.pos) = result.pos
         /\ result.pos # Centroid(result.walls[i])
         /\ DistSq(result.pos, Centroid(result.walls[i]))
                < (result.radius + COLLISION_EPSILON) * (result.radius + COLLISION_EPSILON))
            => DistSq(result.value, Centroid(result.walls[i]))
                   > DistSq(result.pos, Centroid(result.walls[i]))

\* A centre inside the wall was pulled towards the centroid; and in another
\* state a centre on the centroid was left where it was.
PulledToCentroid ==
    \E i \in 1..3 :
        /\ OnlyWall(i) /\ ClosestPoint(result.walls[i], result.pos) = result.pos
        /\ DistSq(result.value, Centroid(result.walls[i]))
               < DistSq(result.pos, Centroid(result.walls[i]))

LeftOnCentroid ==
    \E i \in 1..3 :
        /\ OnlyWall(i) /\ result.pos = Centroid(result.walls[i])
        /\ result.value = result.pos

\* C32: for a circle that collides with exactly one wall and whose centre is
\* strictly outside it, the position returned lies radius + COLLISION_EPSILON
\* from the point of the wall that was closest to the centre, and the circle
\* there does not collide with the wall.  Off the axes the returned
\* coordinates are rounded down to a unit, away from the wall for the
\* corner drawn, which adds less than two units.
C32_PushedClearOfWall ==
    \A i \in 1..3 :
        (OnlyWall(i) /\ ClosestPoint(result.walls[i], result.pos) # result.pos)
            => LET closest == ClosestPoint(result.walls[i], result.pos)
                   reach == result.radius + COLLISION_EPSILON
                   d2 == DistSq(result.value, closest)
               IN  /\ IF closest[1] = result.pos[1] \/ closest[2] = result.pos[2]
                      THEN d2 = reach * reach
                      ELSE reach * reach <= d2 /\ d2 < (reach + 2) * (reach + 2)
                   /\ ~circle_rect_collision(result.value, result.radius, result.walls[i])
                   /\ ClosestPoint(result.walls[i], result.value) = closest

\* The call pushed a circle that reached into the wall's side, with two
\* walls in the list; and in another state a boss that lay over the corner.
C32_Witness ==
    /\ OnlyWall(2)
    /\ ClosestPoint(result.walls[2], result.pos) # result.pos
    /\ ClosestPoint(result.walls[2], result.pos)[2] = result.pos[2]
    /\ result.value # result.pos
    /\ ~check_entity_wall_collision(result.walls, result.value, result.radius)

PushedOffCorner ==
    /\ OnlyWall(1)
    /\ ClosestPoint(result.walls[1], result.pos)[1] # result.pos[1]
    /\ ClosestPoint(result.walls[1], result.pos)[2] # result.pos[2]
    /\ ~circle_rect_collision(result.value, result.radius, result.walls[1])


---------------------------------------------------------------------------
(* The sight specification: Enemy.update called again and again on a       *)
(* flanker, a sniper or a rusher whose view of the player is open, closed  *)
(* by a wall, or lost when the player walks a step.                        *)

\* The enemy's type and position, the walls and the player's facing, in
\* pixels.  A flanker beside the player, its view just clear of a wall's
\* corner; a sniper and a rusher behind a wall and in the open; a sniper
\* beyond its detection range.
SightStarts ==
    { [enemy_type |-> "flanker", pos |-> << 566, 160 >>,
       walls |-> << Rect(534 * PX, 250 * PX, 2 * TILE_SIZE * PX, TILE_SIZE * PX) >>],
      [enemy_type |-> "flanker", pos |-> << 566, 160 >>, walls |-> << >>],
      [enemy_type |-> "sniper", pos |-> << 240, 360 >>,
       walls |-> << Rect(380 * PX, 344 * PX, 2 * TILE_SIZE * PX, TILE_SIZE * PX) >>],
      [enemy_type |-> "sniper", pos |-> << 240, 360 >>, walls |-> << >>],
      [enemy_type |-> "sniper", pos |-> << 20, 360 >>, walls |-> << >>],
      [enemy_type |-> "rusher", pos |-> << 340, 360 >>,
       walls |-> << Rect(380 * PX, 344 * PX, 2 * TILE_SIZE * PX, TILE_SIZE * PX) >>],
      [enemy_type |-> "rusher", pos |-> << 490, 360 >>, walls |-> << >>] }

InitSight ==
    /\ WeaponIdle
    /\ GameIdle
    /\ flight = << >>
    /\ spatial_grid = {}
    /\ result = NoCall
    /\ \E start \in SightStarts, bullets \in AIBulletLists,
          facing \in { << 1, 0 >>, << 0, 1 >> } :
          scene = [entity |-> ArmedEnemy(start.enemy_type,
                                         << start.pos[1] * PX, start.pos[2] * PX >>,
                                         "enemy_1000", 1),
                   ai |-> NewAI,
                   target |-> [id |-> "player",
                               pos |-> << (SCREEN_WIDTH \div 2) * PX,
                                          (SCREEN_HEIGHT \div 2) * PX >>,
                               velocity |-> << 0, 0 >>,
                               look_direction |-> facing],
                   turned |-> FALSE,
                   walls |-> start.walls,
                   bullets |-> bullets,
                   trace |-> NoTrace]

\* The player walks to the left for a frame of 0.03 s at PLAYER_SPEED.
TargetSteps ==
    /\ ~scene.turned
    /\ scene.target # NoRef
    /\ scene' = [scene EXCEPT
                    !.turned = TRUE,
                    !.target.pos = << @[1] - (PLAYER_SPEED * 3 * Tick * PX) \div UnitsPerSecond,
                                      @[2] >>]
    /\ UNCHANGED <<weaponVars, gameVars, flight, spatial_grid, result>>

NextSight == AIUpdate \/ TargetSteps \/ TargetLost

SpecSight == InitSight /\ [][NextSight]_vars

\* The target handed to update is within the entity's detection range and
\* no wall lies on the segment between them.
InSight ==
    /\ scene.target # NoRef
    /\ DistSq(scene.entity.pos, scene.target.pos)
           <= (scene.entity.detection_range * PX) * (scene.entity.detection_range * PX)
    /\ \A i \in 1..Len(scene.walls) :
          ~line_intersects_rect(scene.entity.pos, scene.target.pos, scene.walls[i])

\* C33: an Enemy.update calls fire_weapon, and adds a projectile, only when
\* it makes a decision, the decision carries the fire intent, and the target
\* is in sight; whatever the decision, nothing is fired out of sight.
C33_NoFireOutOfSight ==
    [][ result' # result
            => /\ scene'.trace.fire_weapon
                      => /\ scene'.trace.decided
                         /\ scene'.trace.decision.should_fire
                         /\ InSight
               /\ scene'.trace.shot => scene'.trace.fire_weapon
               /\ scene'.bullets # scene.bullets => scene'.trace.shot
      ]_vars

\* A decision carried the fire intent with the target out of sight, and
\* fire_weapon was not called; and in another state a shot was fired.
C33_Witness ==
    /\ result # NoCall
    /\ scene.trace.decided
    /\ scene.trace.decision.should_fire
    /\ scene.trace.decision.state = "ATTACK"
    /\ ~scene.trace.fire_weapon
    /\ scene.target # NoRef

ShotInSight ==
    /\ result # NoCall
    /\ scene.trace.shot
    /\ Len(scene.bullets.items) = 2


\* C34: when an Enemy.update fires a shot, the look_direction the shot was
\* fired along is the look_direction of the decision made in that update,
\* and the projectile added flies along it.
C34_ShotAlongNewAim ==
    [][ (result' # result /\ scene'.trace.shot)
            => /\ scene'.trace.aim = scene'.trace.decision.look_direction
               /\ LET b == scene'.bullets.items[Len(scene'.bullets.items)]
                  IN  b.velocity = vector_from_angle(scene'.trace.decision.look_direction,
                                                     scene.entity.weapon.bullet_speed)
      ]_vars

\* The shot of a decision flies along the look_direction the entity had
\* before the decision.
ShotAlongOldAim ==
    [][ (result' # result /\ scene'.trace.shot)
            => /\ scene'.trace.aim = scene.entity.look_direction
               /\ LET b == scene'.bullets.items[Len(scene'.bullets.items)]
                  IN  b.velocity = vector_from_angle(scene.entity.look_direction,
                                                     scene.entity.weapon.bullet_speed)
      ]_vars

\* A shot was fired along a look_direction other than the decision's.
StaleAim ==
    /\ result # NoCall
    /\ scene.trace.shot
    /\ scene.trace.aim # scene.trace.decision.look_direction


---------------------------------------------------------------------------
(* The dash specification: the AI of one dodger over several seconds of    *)
(* frames, AIBehavior.update with DodgerAI._make_decision, while bullets   *)
(* of the player come at it or do not.  scene.since_dash is a history      *)
(* value: the time that has passed since the decision that last dashed,    *)
(* -1 before the first dash, counted up to DODGER_DASH_COOLDOWN.           *)

MaxDashFrames == 68     \* AIBehavior.update calls per behaviour

DashFrameTimes == { 3 * Tick, MAX_FRAME_DT }

\* BulletManager.bullets about the dodger: none, or one of the player's
\* flying at it from 60 pixels behind.
DashBulletLists ==
    { << >>,
      << [pos |-> << 580, 360 >>, velocity |-> << PISTOL_BULLET_SPEED, 0 >>,
          owner_id |-> "player", alive |-> TRUE] >> }

InitDash ==
    /\ WeaponIdle
    /\ GameIdle
    /\ flight = << >>
    /\ spatial_grid = {}
    /\ result = NoCall
    /\ \E bullets \in DashBulletLists, clear \in BOOLEAN :
          scene = [entity |-> [id |-> "enemy_1000",
                               pos |-> << SCREEN_WIDTH \div 2, SCREEN_HEIGHT \div 2 >>],
                   player_pos |-> << 740, SCREEN_HEIGHT \div 2 >>,
                   clear |-> clear,
                   bullets |-> bullets,
                   since_dash |-> -1,
                   ai |-> [state |-> "PATROL", decision_cooldown |-> 0,
                           dodge_cooldown |-> 0, dash_cooldown |-> 0]]

\* AIBehavior.update(dt, player, all_entities) of the dodger, with the
\* bullets the manager holds at that frame: decision_cooldown and
\* dodge_cooldown run (dash_cooldown is not among the timers update
\* decrements), and when decision_cooldown is used up a decision is made.
\* dodge_cooldown, which nothing sets above zero and which is only compared
\* with zero, is kept at -MAX_FRAME_DT once it is below that.
\* result.dash tells whether the decision doubled move_direction.
DashUpdate ==
    /\ pc.frames < MaxDashFrames
    /\ \E dt \in DashFrameTimes, bullets \in DashBulletLists :
          LET ai == [scene.ai EXCEPT !.decision_cooldown = @ - dt,
                                     !.dodge_cooldown =
                                         IF @ - dt < -MAX_FRAME_DT THEN -MAX_FRAME_DT
                                         ELSE @ - dt]
              waited == IF scene.since_dash < 0 THEN -1
                        ELSE IF scene.since_dash + dt > DODGER_DASH_COOLDOWN
                             THEN DODGER_DASH_COOLDOWN
                        ELSE scene.since_dash + dt
              sc == [scene EXCEPT !.ai = ai, !.bullets = bullets,
                                  !.since_dash = waited]
              decision == DodgerAI_make_decision(sc)
          IN  IF ai.decision_cooldown <= 0
              THEN /\ scene' = [sc EXCEPT
                                  !.ai.state = decision.state,
                                  !.ai.dash_cooldown =
                                      IF decision.dash THEN DODGER_DASH_COOLDOWN ELSE @,
                                  !.ai.decision_cooldown = UnitsPerSecond \div AI_UPDATE_RATE,
                                  !.since_dash = IF decision.dash THEN 0 ELSE @]
                   /\ result' = [name |-> "_make_decision",
                                 state |-> decision.state,
                                 should_fire |-> decision.should_fire,
                                 dash |-> decision.dash,
                                 dash_cooldown |-> sc.ai.dash_cooldown,
                                 waited |-> waited,
                                 cycle |-> IF result = NoCall THEN 0 ELSE 1 - result.cycle]
              ELSE /\ scene' = sc
                   /\ UNCHANGED result
    /\ pc' = [pc EXCEPT !.frames = @ + 1]
    /\ UNCHANGED <<weaponVars, player, enemies, spawner, manager, game, kills, hits,
                   flight, spatial_grid>>

NextDash == DashUpdate

SpecDash == InitDash /\ [][NextDash]_vars

\* C35: a DODGE decision of a dodger doubles the dodge displacement only
\* when the dash cooldown has run out, and then sets it to
\* DODGER_DASH_COOLDOWN; and a DODGE decision made when that long has passed
\* since the last dash dashes again.
C35_DashGatedByCooldown ==
    [][ (result' # result /\ result'.state = "DODGE")
            => /\ result'.dash => (/\ result'.dash_cooldown <= 0
                                   /\ scene'.ai.dash_cooldown = DODGER_DASH_COOLDOWN)
               /\ result'.waited >= DODGER_DASH_COOLDOWN => result'.dash
      ]_vars

\* The first half of C35 alone: a dash happens only with the cooldown at or
\* below zero, and sets it to DODGER_DASH_COOLDOWN.
DashOnlyWhenReady ==
    [][ (result' # result /\ result'.state = "DODGE" /\ result'.dash)
            => /\ result'.dash_cooldown <= 0
               /\ scene'.ai.dash_cooldown = DODGER_DASH_COOLDOWN
      ]_vars

\* What the code does: once a dodger has dashed, dash_cooldown stays at
\* DODGER_DASH_COOLDOWN and no later decision dashes.
DashesOnce ==
    [][ /\ scene.since_dash >= 0 => scene'.ai.dash_cooldown = DODGER_DASH_COOLDOWN
        /\ (result' # result /\ result'.dash) => scene.since_dash < 0
      ]_vars

\* A dodger dodges, DODGER_DASH_COOLDOWN after its last dash, without a dash.
DodgeWithoutDash ==
    /\ result # NoCall /\ result.state = "DODGE"
    /\ result.waited >= DODGER_DASH_COOLDOWN
    /\ ~result.dash

\* A dodger's first dodge is a dash.
DashedOnce ==
    /\ result # NoCall /\ result.state = "DODGE" /\ result.dash
    /\ scene.since_dash = 0


---------------------------------------------------------------------------
(* The weapon manager specification: one WeaponManager as Player builds    *)
(* it, and the calls Player makes on it: switch_weapon, update, fire with  *)
(* a list of bullets, start_reload.  scene is the manager with the list.   *)

MaxCalls == 9       \* WeaponManager calls per behaviour

\* The indices switch_weapon is called with: the four of the number keys,
\* and two that the manager does not hold.
SwitchIndices == -1 .. 4

InitArms ==
    /\ WeaponIdle
    /\ GameIdle
    /\ flight = << >>
    /\ spatial_grid = {}
    /\ result = NoCall
    /\ scene = [wm |-> NewWeaponManager, bullets |-> << >>]

ArmsStep(wm, bullets, call) ==
    /\ scene' = [wm |-> wm, bullets |-> bullets]
    /\ result' = call
    /\ pc' = [pc EXCEPT !.frames = @ + 1]
    /\ UNCHANGED <<weaponVars, player, enemies, spawner, manager, game, kills, hits,
                   flight, spatial_grid>>

SwitchWeapon ==
    /\ pc.frames < MaxCalls
    /\ \E index \in SwitchIndices :
          LET r == WeaponManager_switch_weapon(scene.wm, index)
          IN  ArmsStep(r.wm, scene.bullets,
                       [name |-> "switch_weapon", index |-> index, ret |-> r.ret])

ManagerUpdate ==
    /\ pc.frames < MaxCalls
    /\ \E dt \in DtSet :
          ArmsStep(WeaponManager_update(scene.wm, dt), scene.bullets,
                   [name |-> "update", index |-> dt, ret |-> FALSE])

ManagerFire ==
    LET r == WeaponManager_fire(scene.wm, FirePos, << 1, 0 >>, "player",
                                ListArg(scene.bullets))
    IN  /\ pc.frames < MaxCalls
        /\ Len(scene.bullets) < MaxShots
        /\ ArmsStep(r.wm, r.bullets.items,
                    [name |-> "fire", index |-> 0, ret |-> r.ret])

ManagerReload ==
    /\ pc.frames < MaxCalls
    /\ ArmsStep(WeaponManager_start_reload(scene.wm), scene.bullets,
                [name |-> "start_reload", index |-> 0, ret |-> FALSE])

NextArms == SwitchWeapon \/ ManagerUpdate \/ ManagerFire \/ ManagerReload

SpecArms == InitArms /\ [][NextArms]_vars

\* The fields of a weapon that fire, reload and update work on.
Timers(w) == << w.ammo, w.is_reloading, w.reload_timer, w.fire_timer >>

\* C36: update and switch_weapon leave ammo, is_reloading, reload_timer and
\* fire_timer of every weapon that is not the current one as they are, so a
\* reload of a weapon switched away from stands still; and switch_weapon with
\* an index the manager does not hold, or with the current index, returns
\* False and changes nothing.
C36_OnlyCurrentWeaponAdvances ==
    [][ /\ result'.name \in {"update", "switch_weapon"}
            => \A i \in 0..3 :
                  i # scene.wm.current_weapon_index
                      => Timers(scene'.wm.weapons[i]) = Timers(scene.wm.weapons[i])
        /\ (/\ result'.name = "switch_weapon"
            /\ (result'.index \notin 0..3
                   \/ result'.index = scene.wm.current_weapon_index))
            => (~result'.ret /\ scene' = scene)
      ]_vars

\* A weapon whose reload was started is not the current one, and update has
\* been called: its reload timer is still the full reload time.
C36_Witness ==
    /\ result.name = "update"
    /\ \E i \in 0..3 :
          /\ i # scene.wm.current_weapon_index
          /\ scene.wm.weapons[i].is_reloading
          /\ scene.wm.weapons[i].reload_timer = scene.wm.weapons[i].reload_time

\* A switch_weapon call was refused while a weapon was reloading.
SwitchRefused ==
    /\ result.name = "switch_weapon" /\ ~result.ret
    /\ scene.wm.weapons[scene.wm.current_weapon_index].is_reloading

\* The reload of a weapon that was switched away from and back to finishes.
ReloadResumed ==
    /\ result.name = "update"
    /\ scene.wm.current_weapon_index = 1
    /\ scene.wm.weapons[1].ammo = SMG_MAGAZINE_SIZE
    /\ scene.wm.weapons[1].total_shots_fired > 0
    /\ scene.wm.weapons[0].total_shots_fired > 0


---------------------------------------------------------------------------
(* The wave specification: the wave system and the spawner over the        *)
(* seconds between two waves.  Wave 1 is cleared; each frame runs          *)
(* Game._update_wave_system and EnemySpawner.update, and the rest of the   *)
(* frame with no bullet in flight.  scene.elapsed is a history value: the  *)
(* sum of the dt of the frames that have run.                              *)

MaxWaveFrames == 172    \* frames of Game.run per behaviour

\* The game runs at its longest frame, the cap of Game.run.
WaveFrameTimes == { MAX_FRAME_DT }

InitWave ==
    /\ WeaponIdle
    /\ player = NewPlayer(<<SCREEN_WIDTH \div 2, Lane>>)
    /\ manager = [bullets |-> << >>, bullet_count |-> 0]
    /\ \E elapsed \in WaveFrameTimes :
          pc = Phase("wave", Min(elapsed, MAX_FRAME_DT), 0, 0)
    /\ kills = << >>
    /\ hits = << >>
    /\ flight = << >>
    /\ spatial_grid = {}
    /\ result = NoCall
    /\ scene = [elapsed |-> 0]
    /\ InitCleared

\* Game._update_game after the spawner, and Game.run up to the wave system
\* of the next frame: BulletManager.update and the bullet loop with no
\* bullet, the entity loops, then the next frame's dt and Player.update.
RestOfFrame ==
    /\ pc.at = "bullets" /\ pc.frames < MaxWaveFrames
    /\ manager.bullets = << >>
    /\ \E elapsed \in WaveFrameTimes :
          LET dt == Min(elapsed, MAX_FRAME_DT)
              c  == ContactDamage(player, ResolveEnemyPairs(enemies, 1, 2), 1,
                                  game.current_time)
              r  == Player_update(c.player, dt, ManagerArg(manager.bullets))
          IN  /\ player' = r.player
              /\ enemies' = c.enemies
              /\ game' = [game EXCEPT !.current_time = game.current_time + elapsed]
              /\ pc' = Phase("wave", dt, 0, pc.frames + 1)
    /\ scene' = [scene EXCEPT !.elapsed = Min(@ + pc.dt, 2 * WAVE_BREAK_TIME)]
    /\ UNCHANGED <<weaponVars, spawner, manager, kills, hits, flight, spatial_grid,
                   result>>

NextWave == UpdateWaveSystem \/ SpawnerUpdate \/ RestOfFrame

SpecWave == InitWave /\ [][NextWave]_vars

\* C37: wave_number changes only by + 1, in a step that starts with the
\* spawn queue empty, no enemy in the list and wave_break_timer <= 0, and
\* that step calls start_wave (the queue is filled for the new wave and the
\* spawn timer set); the queue is filled in no other step.  An enemy is
\* spawned only in a step that starts with spawn_timer <= 0, one per step,
\* and the first one of a wave not before WAVE_BREAK_TIME has passed since
\* start_wave.
C37_WavesInOrder ==
    [][ /\ game'.wave_number # game.wave_number
            => /\ game'.wave_number = game.wave_number + 1
               /\ QueueLen(spawner.spawn_queue) = 0
               /\ Len(enemies) = 0
               /\ game.wave_break_timer <= 0
               /\ QueueLen(spawner'.spawn_queue) = EnemyCount(game'.wave_number)
               /\ spawner'.spawn_timer = WAVE_BREAK_TIME
        /\ QueueLen(spawner'.spawn_queue) > QueueLen(spawner.spawn_queue)
            => game'.wave_number = game.wave_number + 1
        /\ spawner'.spawned # spawner.spawned
            => /\ spawner'.spawned = spawner.spawned + 1
               /\ Len(enemies') = Len(enemies) + 1
               /\ QueueLen(spawner'.spawn_queue) = QueueLen(spawner.spawn_queue) - 1
               /\ spawner.spawn_timer <= 0
               /\ scene.elapsed >= WAVE_BREAK_TIME
        /\ Len(enemies') > Len(enemies) => spawner'.spawned # spawner.spawned
      ]_vars

\* Wave 2 was started and, its spawn timer run out, two of its enemies
\* have been spawned a spawn delay apart.
C37_Witness ==
    /\ game.wave_number = 2
    /\ Len(enemies) = 2
    /\ QueueLen(spawner.spawn_queue) = EnemyCount(2) - 2
    /\ scene.elapsed >= WAVE_BREAK_TIME

\* Wave 2 has just been started: the queue is full and nothing is spawned.
WaveStarted ==
    /\ game.wave_number = 2
    /\ pc.at = "spawner"
    /\ spawner.spawn_timer = WAVE_BREAK_TIME
    /\ enemies = << >>


---------------------------------------------------------------------------
(* The bounds specification: the positions of the player and of one or two *)
(* enemies over whole frames, in tenths of a pixel: Player._update_movement *)
(* and Enemy._update_movement, then the entity loops of                     *)
(* Game._update_collision_detection, which push overlapping enemies and the *)
(* player apart.  The wall stands as close to the border as generate_arena  *)
(* places one (WALL_CLEARANCE_EDGES).                                       *)

WALL_CLEARANCE_EDGES == 50

BoundsWalls ==
    << Rect(WALL_CLEARANCE_EDGES * PX, 300 * PX, 2 * TILE_SIZE * PX, TILE_SIZE * PX) >>

\* An enemy of the bounds specification: a rusher, or a boss rusher.
BoundsEnemy(pos, direction, boss) ==
    [kind |-> "enemy", pos |-> << pos[1] * PX, pos[2] * PX >>,
     radius |-> IF boss
                THEN (((PLAYER_SIZE \div 2) * BOSS_SIZE_MULTIPLIER_NUM)
                          \div BOSS_SIZE_MULTIPLIER_DEN) * PX
                ELSE (PLAYER_SIZE \div 2) * PX,
     speed |-> IF boss THEN (RUSHER_SPEED * 4) \div 5 ELSE RUSHER_SPEED,
     move_direction |-> direction,
     velocity |-> << 0, 0 >>, is_dashing |-> FALSE]

BoundsPlayer(pos, direction) ==
    [kind |-> "player", pos |-> << pos[1] * PX, pos[2] * PX >>,
     radius |-> (PLAYER_SIZE \div 2) * PX,
     speed |-> PLAYER_SPEED, move_direction |-> direction,
     velocity |-> << 0, 0 >>, is_dashing |-> FALSE]

\* Where the player and the enemies start, in pixels: two rushers side by
\* side at the left border; a boss between the wall and the left border; a
\* rusher beside the player at the left border; a rusher beside the player
\* in the open field.
BoundsStarts ==
    { [player |-> << 640, 360 >>, enemies |-> << << 13, 500 >>, << 40, 500 >> >>, boss |-> FALSE],
      [player |-> << 640, 360 >>, enemies |-> << << 33, 316 >> >>, boss |-> TRUE],
      [player |-> << 13, 360 >>,  enemies |-> << << 40, 360 >> >>, boss |-> FALSE],
      [player |-> << 640, 360 >>, enemies |-> << << 670, 360 >> >>, boss |-> FALSE] }

BoundsDirections == { << 0, 0 >>, << -DirUnit, 0 >> }

InitBounds ==
    /\ WeaponIdle
    /\ GameIdle
    /\ flight = << >>
    /\ spatial_grid = {}
    /\ result = NoCall
    /\ \E start \in BoundsStarts, pd \in BoundsDirections, ed \in BoundsDirections :
          scene = [walls |-> BoundsWalls,
                   player |-> BoundsPlayer(start.player, pd),
                   enemies |-> [i \in 1..Len(start.enemies) |->
                                   BoundsEnemy(start.enemies[i], ed, start.boss)]]

\* main.py:353-372, the positions: the player and every enemy it overlaps
\* are pushed apart, in list order from enemy i on.
RECURSIVE PushPlayerApart(_, _, _)
PushPlayerApart(p, es, i) ==
    IF i > Len(es) THEN [player |-> p, enemies |-> es]
    ELSE IF ~check_entity_entity_collision(p.pos, p.radius, es[i].pos, es[i].radius)
    THEN PushPlayerApart(p, es, i + 1)
    ELSE LET r == resolve_entity_entity_collision(p.pos, p.radius,
                                                  es[i].pos, es[i].radius)
         IN  PushPlayerApart([p EXCEPT !.pos = r[1]], [es EXCEPT ![i].pos = r[2]], i + 1)

\* One frame of Game._update_game, the positions: the player moves, the
\* enemies move, the enemies are pushed apart, the player and the enemies
\* are pushed apart.  result.moved holds the positions between the movement
\* and the pushes.
BoundsFrame ==
    /\ pc.frames < MaxMoves
    /\ \E dt \in AIFrameTimes :
          LET pm == Player_update_movement(scene.player, scene.walls, dt)
              p1 == [scene.player EXCEPT !.pos = pm.pos, !.velocity = pm.velocity]
              es1 == [i \in 1..Len(scene.enemies) |->
                         [scene.enemies[i] EXCEPT !.pos =
                             Enemy_update_movement(scene.enemies[i], scene.walls, dt).pos]]
              es2 == ResolveEnemyPairs(es1, 1, 2)
              r == PushPlayerApart(p1, es2, 1)
          IN  /\ scene' = [scene EXCEPT !.player = r.player, !.enemies = r.enemies]
              /\ result' = [name |-> "_update_game", dt |-> dt, frame |-> pc.frames,
                            moved |-> << p1 >> \o es1]
    /\ pc' = [pc EXCEPT !.frames = @ + 1]
    /\ UNCHANGED <<weaponVars, player, enemies, spawner, manager, game, kills, hits,
                   flight, spatial_grid>>

NextBounds == BoundsFrame

SpecBounds == InitBounds /\ [][NextBounds]_vars

\* The centre of a combatant lies on the screen, its radius from every edge.
OnScreen(c) ==
    /\ c.radius <= c.pos[1] /\ c.pos[1] <= SCREEN_WIDTH * PX - c.radius
    /\ c.radius <= c.pos[2] /\ c.pos[2] <= SCREEN_HEIGHT * PX - c.radius

\* C38: at the end of every frame the centre of the player and of every
\* enemy lies within [radius, SCREEN_WIDTH - radius] x [radius,
\* SCREEN_HEIGHT - radius], after the push out of a wall and after the
\* pushes that separate overlapping enemies and the player from an enemy.
C38_CentresStayOnScreen ==
    result.name = "_update_game"
        => /\ OnScreen(scene.player)
           /\ \A i \in 1..Len(scene.enemies) : OnScreen(scene.enemies[i])

\* What the code keeps: after the movement of a frame, the push out of the
\* walls included, every centre lies on the screen; an arena's walls stand
\* WALL_CLEARANCE_EDGES from the border, more than a diameter.
OnScreenAfterMovement ==
    result.name = "_update_game"
        => \A i \in 1..Len(result.moved) : OnScreen(result.moved[i])

\* An enemy at the left border has been pushed off the screen by another.
EnemyPushedOffScreen ==
    /\ result.name = "_update_game"
    /\ Len(scene.enemies) = 2
    /\ scene.enemies[1].pos[1] < scene.enemies[1].radius

\* The player at the left border has been pushed off the screen by an enemy.
PlayerPushedOffScreen ==
    /\ result.name = "_update_game"
    /\ scene.player.pos[1] < scene.player.radius

\* A boss between the wall and the border was pushed out of the wall, towards
\* the border, and is on the screen.
BossPushedOutOfWall ==
    /\ result.name = "_update_game"
    /\ Len(scene.enemies) = 1
    /\ scene.enemies[1].radius > (PLAYER_SIZE \div 2) * PX
    /\ scene.enemies[1].pos[1] = (WALL_CLEARANCE_EDGES * PX) - scene.enemies[1].radius
                                     - COLLISION_EPSILON


---------------------------------------------------------------------------
(* The ammunition specification: one enemy over the frames of its life,    *)
(* Enemy.update with the fire intent its AI may or may not have, firing    *)
(* into a list of bullets.  scene holds the enemy and the list.            *)

MaxAmmoFrames == 122    \* Enemy.update calls per behaviour

\* The enemies: a rusher as spawned, with the full magazine of its SMG, and
\* a dodger that has fired four of the six shells of its Shotgun.
AmmoEnemies ==
    { NewEnemy("rusher", << 700, Lane >>, "enemy_1000", 1),
      [Seasoned(NewEnemy("dodger", << 700, Lane >>, "enemy_1000", 1))
          EXCEPT !.weapon.ammo = 2, !.weapon.shots_fired = 4,
                 !.weapon.total_shots_fired = 4] }

\* The list handed to set_bullet_list: empty, or holding a bullet of the
\* player.
AmmoBullets ==
    { << >>,
      << NewBullet(<< 900, 100 >>, << PISTOL_BULLET_SPEED, 0 >>, PISTOL_DAMAGE, "player") >> }

InitAmmo ==
    /\ WeaponIdle
    /\ GameIdle
    /\ flight = << >>
    /\ spatial_grid = {}
    /\ result = NoCall
    /\ \E enemy \in AmmoEnemies, bullets \in AmmoBullets :
          scene = [enemy |-> enemy, bullets |-> bullets]

\* Enemy.update(dt, ...), at the frame time of the cap of Game.run; `fires`
\* is whether the AI's decision calls fire_weapon.
AmmoUpdate ==
    /\ pc.frames < MaxAmmoFrames
    /\ \E fires \in BOOLEAN :
          LET r == Enemy_update(scene.enemy, MAX_FRAME_DT, fires, ListArg(scene.bullets))
          IN  /\ scene' = [enemy |-> r.enemy, bullets |-> r.bullets.items]
              /\ result' = [name |-> "Enemy.update", fires |-> fires,
                            ammo |-> scene.enemy.weapon.ammo,
                            frame |-> pc.frames]
    /\ pc' = [pc EXCEPT !.frames = @ + 1]
    /\ UNCHANGED <<weaponVars, player, enemies, spawner, manager, game, kills, hits,
                   flight, spatial_grid>>

NextAmmo == AmmoUpdate

SpecAmmo == InitAmmo /\ [][NextAmmo]_vars

\* C39: an enemy's weapon never starts a reload and its ammo never goes up;
\* the weapon fires at most magazine_size times in all, the ammo and the
\* shots fired adding up to the magazine; and with ammo 0 a fire_weapon call
\* adds no projectile.
C39_EnemyNeverReloads ==
    [][ /\ scene'.enemy.weapon.ammo <= scene.enemy.weapon.ammo
        /\ ~scene'.enemy.weapon.is_reloading
        /\ scene'.enemy.weapon.total_shots_fired <= scene.enemy.weapon.magazine_size
        /\ scene'.enemy.weapon.ammo + scene'.enemy.weapon.total_shots_fired
               = scene.enemy.weapon.magazine_size
        /\ scene.enemy.weapon.ammo = 0 => scene'.bullets = scene.bullets
      ]_vars

\* A rusher has fired the thirty rounds of its SMG and its fire_weapon is
\* called with the magazine empty.
C39_Witness ==
    /\ result.name = "Enemy.update"
    /\ result.fires /\ result.ammo = 0
    /\ scene.enemy.enemy_type = "rusher"
    /\ scene.enemy.weapon.ammo = 0
    /\ scene.enemy.weapon.total_shots_fired = SMG_MAGAZINE_SIZE

\* A dodger has fired its last shell: the list holds the pellets of two shots.
LastShellFired ==
    /\ scene.enemy.enemy_type = "dodger"
    /\ scene.enemy.weapon.ammo = 0
    /\ Len(scene.bullets) = 1 + 2 * SHOTGUN_PELLETS


---------------------------------------------------------------------------
(* The game with shielded targets: the frame loop of Spec, started with a  *)
(* rusher on the lane that shoots and, 28 pixels behind it, a rusher that  *)
(* has just been spawned and is invincible; the player unhurt, or hit a    *)
(* moment ago and invincible.  The ids of the two rushers are the draws of *)
(* Enemy.__init__, alike or not.  The shots add_bullet is handed under     *)
(* the id of the first rusher are that rusher's.                           *)

InitAbsorb ==
    /\ WeaponIdle
    /\ \E hit \in BOOLEAN :
          player = IF hit
                   THEN [NewPlayer(<<SCREEN_WIDTH \div 2, Lane>>)
                            EXCEPT !.health = (PLAYER_MAX_HEALTH - SMG_DAMAGE) * HP,
                                   !.damage_taken = 2 * SMG_DAMAGE,
                                   !.last_damage_time = CombatTime,
                                   !.invincible = TRUE,
                                   !.invincibility_timer = PLAYER_INVINCIBILITY_DURATION]
                   ELSE NewPlayer(<<SCREEN_WIDTH \div 2, Lane>>)
    /\ manager = [bullets |-> << >>, bullet_count |-> 0]
    /\ pc = Phase("events", 0, 0, 0)
    /\ kills = << >>
    /\ hits = << >>
    /\ AuxIdle
    /\ \E id \in EnemyIds :
          enemies = << Seasoned(NewEnemy("rusher", <<700, Lane>>, "enemy_1000", 1)),
                       NewEnemy("rusher", <<728, Lane>>, id, 2) >>
    /\ spawner = [spawn_queue |-> EmptyQueue, boss_pending |-> FALSE,
                  spawn_timer |-> 0, spawned |-> 2]
    /\ game = [wave_number |-> 1, wave_break_timer |-> 0, current_time |-> CombatTime,
               total_kills |-> 0, walls |-> << >>]

SpecAbsorb == InitAbsorb /\ [][Next]_vars

\* The combatant that fired a bullet: the player, or the first rusher.
Shooter(b) == IF b.owner_id = "player" THEN PlayerRef ELSE 1

\* A bullet and a combatant overlap.
Touches(b, c) ==
    DistSq(b.pos, c.pos) < (BULLET_SIZE + c.radius) * (BULLET_SIZE + c.radius)

\* A living, invincible combatant that the bullet overlaps.
Shielded(b, ref) ==
    LET c == Combatant(player, enemies, ref)
    IN  /\ Touches(b, c)
        /\ c.health > 0 /\ (ref # PlayerRef => c.alive)
        /\ c.invincible

\* The bullet the collision pass has come to, while it is alive.
BulletAtHand ==
    /\ pc.at = "collide" /\ pc.bullet <= Len(manager.bullets)
    /\ manager.bullets[pc.bullet].alive

\* C40: when the collision pass comes to a live bullet that overlaps a
\* living, invincible combatant other than the one that fired it, the step
\* marks the bullet dead and leaves that combatant's health as it is.
C40_ShieldedTargetAbsorbs ==
    [][ BulletAtHand
            => \A ref \in ActiveRefs(enemies) :
                  (Shielded(manager.bullets[pc.bullet], ref)
                      /\ ref # Shooter(manager.bullets[pc.bullet]))
                      => /\ ~manager'.bullets[pc.bullet].alive
                         /\ Combatant(player', enemies', ref).health
                                = Combatant(player, enemies, ref).health
      ]_vars

\* What the code keeps: the same for an invincible combatant whose id
\* differs from the bullet's owner_id.
ForeignIdAbsorbs ==
    [][ BulletAtHand
            => \A ref \in ActiveRefs(enemies) :
                  (Shielded(manager.bullets[pc.bullet], ref)
                      /\ Combatant(player, enemies, ref).id
                             # manager.bullets[pc.bullet].owner_id)
                      => /\ ~manager'.bullets[pc.bullet].alive
                         /\ Combatant(player', enemies', ref).health
                                = Combatant(player, enemies, ref).health
      ]_vars

\* A bullet of the first rusher has passed the collision pass alive while
\* it overlaps the invincible second rusher, which carries the same id.
PassedThroughNamesake ==
    /\ pc.at = "collide" /\ pc.bullet > 1
    /\ pc.bullet - 1 <= Len(manager.bullets)
    /\ LET b == manager.bullets[pc.bullet - 1]
       IN  /\ b.alive /\ b.owner_id = "enemy_1000"
           /\ Len(enemies) = 2 /\ enemies[2].id = "enemy_1000"
           /\ enemies[2].invincible /\ enemies[2].alive
           /\ Touches(b, enemies[2])

\* An invincible enemy with an id of its own has taken a bullet of the
\* first rusher, and an invincible player one: both bullets are dead.
AbsorbedByShield ==
    \E i, j \in 1..Len(hits) :
        /\ hits[i].invincible /\ hits[i].target = 2 /\ hits[i].owner_id = "enemy_1000"
        /\ hits[j].invincible /\ hits[j].target = PlayerRef
        /\ \A k \in 1..Len(manager.bullets) :
              manager.bullets[k].uid \in { hits[i].bullet, hits[j].bullet }
                  => ~manager.bullets[k].alive

===========================================================================
